---- MODULE Spec2Model ----
(***************************************************************************)
(* Model of python-usb-f-ccid: the ICCD slot (f_ccid/slot.py), the CCID    *)
(* message classes (f_ccid/iccd.py, f_ccid/usb.py) and the function's      *)
(* event handlers (f_ccid/__init__.py).                                    *)
(*                                                                         *)
(* Every handler is one action.  A handler that raises keeps the           *)
(* assignments it made before the raise (Python does not roll back) and    *)
(* the exception's class name is left in `raised'.  The card is the        *)
(* external collaborator: getATR, runAPDU and clearVolatile return and do  *)
(* not raise.                                                              *)
(***************************************************************************)
EXTENDS Integers, Sequences, FiniteSets, TLC

(***************************************************************************)
(* Bounds of the model.                                                    *)
(***************************************************************************)
NumSlots == 1   \* slot_count of ICCDFunction.__init__, at its default
NumCards == 1   \* card objects owned by the application
MaxSeq == 1     \* bSeq values the host uses are 0..MaxSeq
MaxChunks == 2  \* APDU chunks the host leaves pending in a slot

SlotIds == 0 .. (NumSlots - 1)
Cards == 1 .. NumCards
Seqs == 0 .. MaxSeq

(***************************************************************************)
(* f_ccid/usb.py                                                           *)
(***************************************************************************)
CCID_REQ_ABORT == 1
CCID_REQ_GET_CLOCK_FREQUENCIES == 2
CCID_REQ_GET_DATA_RATES == 3

MESSAGE_TYPE_SLOT_CHANGE == 80
MESSAGE_TYPE_HARDWARE_ERROR == 81
MESSAGE_TYPE_POWER_ON == 98
MESSAGE_TYPE_POWER_OFF == 99
MESSAGE_TYPE_GET_SLOT_STATUS == 101
MESSAGE_TYPE_XFR_BLOCK == 111
MESSAGE_TYPE_GET_PARAMETERS == 108
MESSAGE_TYPE_RESET_PARAMETERS == 109
MESSAGE_TYPE_SET_PARAMETERS == 97
MESSAGE_TYPE_ESCAPE == 107
MESSAGE_TYPE_ICC_CLOCK == 110
MESSAGE_TYPE_T0_APDU == 106
MESSAGE_TYPE_SECURE == 105
MESSAGE_TYPE_MECHANICAL == 113
MESSAGE_TYPE_ABORT == 114
MESSAGE_TYPE_SET_RATE_AND_CLOCK == 115
MESSAGE_TYPE_DATA_BLOCK == 128
MESSAGE_TYPE_SLOT_STATUS == 129
MESSAGE_TYPE_PARAMETERS == 130
MESSAGE_TYPE_ESCAPE_RESPONSE == 131
MESSAGE_TYPE_RATE_AND_CLOCK == 132

CLOCK_STATUS_RUNNING == 0
CLOCK_STATUS_STOPPED == 3

CHAIN_BEGIN_AND_END == 0
CHAIN_BEGIN == 1
CHAIN_END == 2
CHAIN_INTERMEDIATE == 3
CHAIN_CONTINUE == 16

DATA_MAX_LENGTH == 65538

ICC_STATUS_ACTIVE == 0
ICC_STATUS_INACTIVE == 1
ICC_STATUS_NOT_PRESENT == 2

COMMAND_STATUS_OK == 0
COMMAND_STATUS_FAILED == 1

ERROR_CMD_ABORTED == 255
ERROR_ICC_MUTE == 254
ERROR_CMD_NOT_SUPPORTED == 0
ERROR_BAD_LENGTH == 1
ERROR_SLOT_DOES_NOT_EXIST == 5
ERROR_POWERSELECT_NOT_SUPPORTED == 7
ERROR_PROTOCOLNUM_NOT_SUPPORTED == 7
ERROR_BAD_WLEVEL == 8

\* CHAIN_TO_START_STOP_DICT: the keys, and the (start, stop) pair of a key
\* the keys with one level more
CHAIN_TO_START_STOP_KEYS_OneMore == 0 .. 4

CHAIN_TO_START_STOP_KEYS == {CHAIN_BEGIN_AND_END, CHAIN_BEGIN, CHAIN_END, CHAIN_INTERMEDIATE}
CHAIN_TO_START_STOP_DICT(level) ==
  [start |-> level \in {CHAIN_BEGIN_AND_END, CHAIN_BEGIN},
   stop |-> level \in {CHAIN_BEGIN_AND_END, CHAIN_END}]

\* START_STOP_TO_CHAIN_DICT looked up with start taken as False
START_STOP_TO_CHAIN_DICT_NoStart(start, stop) ==
  CHOOSE level \in CHAIN_TO_START_STOP_KEYS :
    CHAIN_TO_START_STOP_DICT(level) = [start |-> FALSE, stop |-> stop]

\* START_STOP_TO_CHAIN_DICT: the inverse of CHAIN_TO_START_STOP_DICT
START_STOP_TO_CHAIN_DICT(start, stop) ==
  CHOOSE level \in CHAIN_TO_START_STOP_KEYS :
    CHAIN_TO_START_STOP_DICT(level) = [start |-> start, stop |-> stop]

(***************************************************************************)
(* Python values.  None for an object reference is the record None, for    *)
(* the stashed sequence number it is NoSeq and for the card it is NoCard.  *)
(* A tuple is a record with the single field `tuple', so that looking up   *)
(* an attribute such as bSeq on it fails as it does in Python.             *)
(***************************************************************************)
None == [none |-> TRUE]
NoSeq == -1
NoCard == 0
ABORT_MARKER == [marker |-> TRUE]

Tuple(items) == [tuple |-> items]
IsTuple(obj) == "tuple" \in DOMAIN obj
HasAttr(obj, name) == name \in DOMAIN obj

\* the value of a ctypes c_byte field assigned v, and a byte as sent
CByte(v) == IF v % 256 >= 128 THEN (v % 256) - 256 ELSE v % 256
UByte(v) == v % 256

(***************************************************************************)
(* The card contract: the answers of the card.                             *)
(***************************************************************************)
getATR(card) == <<59, card>>
CardReplies == {<<>>, <<144, 0>>}

(***************************************************************************)
(* f_ccid/utils.py                                                         *)
(***************************************************************************)
RECURSIVE chainBytearrayList(_)
chainBytearrayList(bytearray_list) ==
  IF Len(bytearray_list) = 1 THEN bytearray_list[1]
  ELSE IF bytearray_list = <<>> THEN <<>>
  ELSE Head(bytearray_list) \o chainBytearrayList(Tail(bytearray_list))

(***************************************************************************)
(* f_ccid/slot.py: ICCDSlot.  A slot is a record; every method is an       *)
(* operator from the slot to a record with the slot afterwards (`slot'),   *)
(* the returned value (`ret'), the exception raised (`exc', "none" when    *)
(* the method returns) and the card calls made (`calls').                  *)
(***************************************************************************)
ICCDSlot ==
  [status |-> ICC_STATUS_NOT_PRESENT,
   changed |-> FALSE,
   data |-> <<>>,
   abort_control_sequence |-> NoSeq,
   abort_response |-> None,
   card |-> NoCard]

Returns(slot, ret, calls) == [slot |-> slot, ret |-> ret, exc |-> "none", calls |-> calls]
Raises(slot, exc, calls) == [slot |-> slot, ret |-> None, exc |-> exc, calls |-> calls]

CardCall(card, method, arg) == [card |-> card, method |-> method, arg |-> arg]

\* clearAPDU that keeps the chunks
clearAPDU_Keeps(self) == self

clearAPDU(self) == [self EXCEPT !.data = <<>>]

\* storeAPDU with self._data.insert(0, apdu) for append
storeAPDU_Prepends(self, apdu) == [self EXCEPT !.data = <<apdu>> \o @]

storeAPDU(self, apdu) == [self EXCEPT !.data = Append(@, apdu)]

\* insert that leaves the card powered
insert_PowersOn(self, card) ==
  IF self.card # NoCard
  THEN Raises(self, "RuntimeError", <<>>)
  ELSE Returns([clearAPDU([self EXCEPT !.card = card, !.status = ICC_STATUS_ACTIVE])
                  EXCEPT !.changed = TRUE],
               None, <<>>)

\* insert without the test for a card already present
insert_Replaces(self, card) ==
  Returns([clearAPDU([self EXCEPT !.card = card, !.status = ICC_STATUS_INACTIVE])
             EXCEPT !.changed = TRUE],
          None, <<>>)

\* insert up to, not including, the call of self._onEvent
insert(self, card) ==
  IF self.card # NoCard
  THEN Raises(self, "RuntimeError", <<>>)
  ELSE Returns([clearAPDU([self EXCEPT !.card = card, !.status = ICC_STATUS_INACTIVE])
                  EXCEPT !.changed = TRUE],
               None, <<>>)

\* remove that forgets to reset the status
remove_KeepsStatus(self) ==
  IF self.card = NoCard
  THEN Raises(self, "RuntimeError", <<>>)
  ELSE Returns([clearAPDU([self EXCEPT !.card = NoCard]) EXCEPT !.changed = TRUE],
               self.card,
               <<CardCall(self.card, "clearVolatile", <<>>)>>)

\* remove that forgets to set the changed flag
remove_Unflagged(self) ==
  IF self.card = NoCard
  THEN Raises(self, "RuntimeError", <<>>)
  ELSE Returns(clearAPDU([self EXCEPT !.card = NoCard, !.status = ICC_STATUS_NOT_PRESENT]),
               self.card,
               <<CardCall(self.card, "clearVolatile", <<>>)>>)

\* remove that reads self.card for its result after resetting it
remove_ReturnsAfterReset(self) ==
  IF self.card = NoCard
  THEN Raises(self, "RuntimeError", <<>>)
  ELSE Returns([clearAPDU([self EXCEPT !.card = NoCard, !.status = ICC_STATUS_NOT_PRESENT])
                  EXCEPT !.changed = TRUE],
               NoCard,
               <<CardCall(self.card, "clearVolatile", <<>>)>>)

\* remove up to, not including, the call of self._onEvent
remove(self) ==
  IF self.card = NoCard
  THEN Raises(self, "RuntimeError", <<>>)
  ELSE Returns([clearAPDU([self EXCEPT !.card = NoCard, !.status = ICC_STATUS_NOT_PRESENT])
                  EXCEPT !.changed = TRUE],
               self.card,
               <<CardCall(self.card, "clearVolatile", <<>>)>>)

\* isAborting that forgets the sequence stashed by a control ABORT
isAborting_BulkOnly(self) ==
  self.abort_response # None

isAborting(self) ==
  self.abort_control_sequence # NoSeq \/ self.abort_response # None

\* abortFromBulk without the test for a stashed control sequence
abortFromBulk_NoRendezvous(self, response) ==
  IF self.abort_response # None
  THEN Raises(self, "AssertionError", <<>>)
  ELSE Returns([self EXCEPT !.abort_response = response], ABORT_MARKER, <<>>)

\* abortFromBulk that takes any stashed control sequence for its own
abortFromBulk_AnySequence(self, response) ==
  IF self.abort_control_sequence # NoSeq
  THEN Returns([self EXCEPT !.abort_control_sequence = NoSeq], response, <<>>)
  ELSE IF self.abort_response # None
  THEN Raises(self, "AssertionError", <<>>)
  ELSE Returns([self EXCEPT !.abort_response = response], ABORT_MARKER, <<>>)

abortFromBulk(self, response) ==
  IF self.abort_control_sequence = response.tuple[1].bSeq
  THEN Returns([self EXCEPT !.abort_control_sequence = NoSeq], response, <<>>)
  ELSE IF self.abort_response # None
  THEN Raises(self, "AssertionError", <<>>)
  ELSE Returns([self EXCEPT !.abort_response = response], ABORT_MARKER, <<>>)

abortFromControl(self, sequence) ==
  LET response == self.abort_response IN
  IF response # None /\ ~HasAttr(response, "bSeq")
  THEN Raises(self, "AttributeError", <<>>)
  ELSE IF response = None \/ sequence # response.bSeq
  THEN IF self.abort_control_sequence # NoSeq
       THEN Raises(self, "AssertionError", <<>>)
       ELSE Returns([self EXCEPT !.abort_control_sequence = sequence], ABORT_MARKER, <<>>)
  ELSE Returns([self EXCEPT !.abort_response = None], response, <<>>)

\* getSlotChangeNotification that reads the flag after resetting it
getSlotChangeNotification_ReadsAfterReset(self) ==
  Returns([self EXCEPT !.changed = FALSE],
          [present |-> self.status # ICC_STATUS_NOT_PRESENT, changed |-> FALSE],
          <<>>)

\* getSlotChangeNotification that leaves the flag as it is
getSlotChangeNotification_KeepsFlag(self) ==
  Returns(self,
          [present |-> self.status # ICC_STATUS_NOT_PRESENT, changed |-> self.changed],
          <<>>)

getSlotChangeNotification(self) ==
  Returns([self EXCEPT !.changed = FALSE],
          [present |-> self.status # ICC_STATUS_NOT_PRESENT, changed |-> self.changed],
          <<>>)

powerOn(self) ==
  LET on == IF self.status = ICC_STATUS_INACTIVE
            THEN [self EXCEPT !.status = ICC_STATUS_ACTIVE]
            ELSE self
  IN IF on.data # <<>>
     THEN Raises(on, "AssertionError", <<>>)
     ELSE IF on.card = NoCard
     THEN Raises(on, "AttributeError", <<>>)
     ELSE Returns(on, getATR(on.card), <<CardCall(on.card, "getATR", <<>>)>>)

\* powerOff that flags the slot as changed when it powers the card off
powerOff_Flags(self) ==
  IF self.status = ICC_STATUS_ACTIVE
  THEN Returns(clearAPDU([self EXCEPT !.status = ICC_STATUS_INACTIVE, !.changed = TRUE]),
               None,
               <<CardCall(self.card, "clearVolatile", <<>>)>>)
  ELSE Returns(clearAPDU(self), None, <<>>)

\* powerOff that clears the volatile state of any card, powered or not
powerOff_ClearsAlways(self) ==
  IF self.status # ICC_STATUS_NOT_PRESENT
  THEN Returns(clearAPDU([self EXCEPT !.status = ICC_STATUS_INACTIVE]), None,
               <<CardCall(self.card, "clearVolatile", <<>>)>>)
  ELSE Returns(clearAPDU(self), None, <<>>)

powerOff(self) ==
  IF self.status = ICC_STATUS_ACTIVE
  THEN Returns(clearAPDU([self EXCEPT !.status = ICC_STATUS_INACTIVE]), None,
               <<CardCall(self.card, "clearVolatile", <<>>)>>)
  ELSE Returns(clearAPDU(self), None, <<>>)

\* runAPDU that powers the card on before it runs the APDU
runAPDU_PowersOn(self, reply) ==
  IF self.card = NoCard
  THEN Raises(self, "AttributeError", <<>>)
  ELSE Returns(clearAPDU([self EXCEPT !.status = ICC_STATUS_ACTIVE]), reply,
               <<CardCall(self.card, "runAPDU", chainBytearrayList(self.data))>>)

\* runAPDU, the card answering reply
runAPDU(self, reply) ==
  IF self.card = NoCard
  THEN Raises(self, "AttributeError", <<>>)
  ELSE Returns(clearAPDU(self), reply,
               <<CardCall(self.card, "runAPDU", chainBytearrayList(self.data))>>)

(***************************************************************************)
(* f_ccid/iccd.py: the message classes.  A ctypes structure is a record    *)
(* of its fields plus `cls', the name of its class.                        *)
(***************************************************************************)
NO_DATA == <<>>

\* _ICCDStructRegistrar.__register: bMessageType -> registered class
REGISTERED_TYPES ==
  {MESSAGE_TYPE_SLOT_CHANGE, MESSAGE_TYPE_HARDWARE_ERROR,
   MESSAGE_TYPE_DATA_BLOCK, MESSAGE_TYPE_SLOT_STATUS, MESSAGE_TYPE_PARAMETERS,
   MESSAGE_TYPE_ESCAPE_RESPONSE, MESSAGE_TYPE_RATE_AND_CLOCK,
   MESSAGE_TYPE_POWER_ON, MESSAGE_TYPE_POWER_OFF, MESSAGE_TYPE_GET_SLOT_STATUS,
   MESSAGE_TYPE_XFR_BLOCK, MESSAGE_TYPE_GET_PARAMETERS,
   MESSAGE_TYPE_RESET_PARAMETERS, MESSAGE_TYPE_SET_PARAMETERS,
   MESSAGE_TYPE_ESCAPE, MESSAGE_TYPE_ICC_CLOCK, MESSAGE_TYPE_T0_APDU,
   MESSAGE_TYPE_SECURE, MESSAGE_TYPE_MECHANICAL, MESSAGE_TYPE_ABORT,
   MESSAGE_TYPE_SET_RATE_AND_CLOCK}

REGISTER(bMessageType) ==
  CASE bMessageType = MESSAGE_TYPE_SLOT_CHANGE -> "ICCDNotifySlotChangeBase"
    [] bMessageType = MESSAGE_TYPE_HARDWARE_ERROR -> "ICCDNotifyHardwareError"
    [] bMessageType = MESSAGE_TYPE_DATA_BLOCK -> "ICCDResponseDataBlock"
    [] bMessageType = MESSAGE_TYPE_SLOT_STATUS -> "ICCDResponseSlotStatus"
    [] bMessageType = MESSAGE_TYPE_PARAMETERS -> "ICCDResponseParametersBase"
    [] bMessageType = MESSAGE_TYPE_ESCAPE_RESPONSE -> "ICCDResponseEscape"
    [] bMessageType = MESSAGE_TYPE_RATE_AND_CLOCK -> "ICCDResponseRateAndClock"
    [] bMessageType = MESSAGE_TYPE_POWER_ON -> "ICCDRequestPowerOn"
    [] bMessageType = MESSAGE_TYPE_POWER_OFF -> "ICCDRequestPowerOff"
    [] bMessageType = MESSAGE_TYPE_GET_SLOT_STATUS -> "ICCDRequestGetSlotStatus"
    [] bMessageType = MESSAGE_TYPE_XFR_BLOCK -> "ICCDRequestXfrBlock"
    [] bMessageType = MESSAGE_TYPE_GET_PARAMETERS -> "ICCDRequestGetParameters"
    [] bMessageType = MESSAGE_TYPE_RESET_PARAMETERS -> "ICCDRequestResetParameters"
    [] bMessageType = MESSAGE_TYPE_SET_PARAMETERS -> "ICCDRequestSetParameters"
    [] bMessageType = MESSAGE_TYPE_ESCAPE -> "ICCDRequestEscape"
    [] bMessageType = MESSAGE_TYPE_ICC_CLOCK -> "ICCDRequestICCClock"
    [] bMessageType = MESSAGE_TYPE_T0_APDU -> "ICCDRequestT0APDU"
    [] bMessageType = MESSAGE_TYPE_SECURE -> "ICCDRequestSecure"
    [] bMessageType = MESSAGE_TYPE_MECHANICAL -> "ICCDRequestMechanical"
    [] bMessageType = MESSAGE_TYPE_ABORT -> "ICCDRequestAbort"
    [] bMessageType = MESSAGE_TYPE_SET_RATE_AND_CLOCK -> "ICCDRequestRateAndClockRequest"

\* issubclass(cls, ICCDRequestBase) for the registered classes
IsRequestClass(cls) ==
  cls \in {"ICCDRequestPowerOn", "ICCDRequestPowerOff", "ICCDRequestGetSlotStatus",
           "ICCDRequestXfrBlock", "ICCDRequestGetParameters",
           "ICCDRequestResetParameters", "ICCDRequestSetParameters",
           "ICCDRequestEscape", "ICCDRequestICCClock", "ICCDRequestT0APDU",
           "ICCDRequestSecure", "ICCDRequestMechanical", "ICCDRequestAbort",
           "ICCDRequestRateAndClockRequest"}

\* the response_type attribute of a request class
response_type(cls) ==
  CASE cls \in {"ICCDRequestPowerOn", "ICCDRequestXfrBlock", "ICCDRequestSecure"}
         -> "ICCDResponseDataBlock"
    [] cls \in {"ICCDRequestPowerOff", "ICCDRequestGetSlotStatus", "ICCDRequestICCClock",
                "ICCDRequestT0APDU", "ICCDRequestMechanical", "ICCDRequestAbort"}
         -> "ICCDResponseSlotStatus"
    [] cls \in {"ICCDRequestGetParameters", "ICCDRequestResetParameters",
                "ICCDRequestSetParameters"}
         -> "_ICCDResponseParametersBase"
    [] cls = "ICCDRequestEscape" -> "ICCDResponseEscape"
    [] cls = "ICCDRequestRateAndClockRequest" -> "ICCDResponseRateAndClock"

\* ctypes.sizeof of a message class, packed: the 7 bytes of the base
\* (bMessageType, dwLength, bSlot, bSeq) and the class's own _fields_.  A
\* request has 3 more bytes, but ICCDRequestRateAndClockRequest declares
\* them in _slots_, not _fields_; a response has the status byte and bError
\* and then its own fields.
sizeof(cls) ==
  CASE cls = "ICCDRequestRateAndClockRequest" -> 7
    [] cls = "ICCDResponseDataBlock" -> 7 + 2 + 1
    [] cls = "ICCDResponseSlotStatus" -> 7 + 2 + 1
    [] cls = "ICCDResponseParameterT0" -> 7 + 2 + 6
    [] cls = "ICCDResponseParameterT1" -> 7 + 2 + 8
    [] cls = "ICCDResponseEscape" -> 7 + 2
    [] cls = "ICCDResponseRateAndClock" -> 7 + 2 + 1 + 4 + 4
    [] OTHER -> 7 + 3

ICCD_REQUEST_SET_PARAMETERS_T1_LENGTH == 7

\* a little-endian unsigned integer read from, and written to, bytes
RECURSIVE LittleEndian(_)
LittleEndian(bytes) ==
  IF bytes = <<>> THEN 0 ELSE Head(bytes) + 256 * LittleEndian(Tail(bytes))

ToLittleEndian(value, size) ==
  [k \in 1 .. size |-> (value \div (256 ^ (k - 1))) % 256]

\* Python's source[first:last] on a byte sequence (0-based, last excluded)
Slice(source, first, last) ==
  LET stop == IF last < Len(source) THEN last ELSE Len(source)
  IN IF first >= stop THEN <<>> ELSE SubSeq(source, first + 1, stop)

\* ctypes from_buffer of a request class: the fields at their packed offsets
\* from_buffer over a structure whose bSlot is read at the offset of bSeq
from_buffer_SlotAtSeq(cls, source) ==
  LET base == [cls |-> cls,
               bMessageType |-> source[1],
               dwLength |-> LittleEndian(SubSeq(source, 2, 5)),
               bSlot |-> source[7],
               bSeq |-> source[7]]
  IN CASE cls = "ICCDRequestPowerOn" -> base @@ [bPowerSelect |-> source[8]]
       [] cls \in {"ICCDRequestXfrBlock", "ICCDRequestSecure"}
            -> base @@ [bBWI |-> source[8],
                        wLevelParameter |-> LittleEndian(SubSeq(source, 9, 10))]
       [] cls = "ICCDRequestSetParameters" -> base @@ [bProtocolNum |-> source[8]]
       [] cls = "ICCDRequestICCClock" -> base @@ [bClockCommand |-> source[8]]
       [] cls = "ICCDRequestMechanical" -> base @@ [bFunction |-> source[8]]
       [] OTHER -> base

from_buffer(cls, source) ==
  LET base == [cls |-> cls,
               bMessageType |-> source[1],
               dwLength |-> LittleEndian(SubSeq(source, 2, 5)),
               bSlot |-> source[6],
               bSeq |-> source[7]]
  IN CASE cls = "ICCDRequestPowerOn" -> base @@ [bPowerSelect |-> source[8]]
       [] cls \in {"ICCDRequestXfrBlock", "ICCDRequestSecure"}
            -> base @@ [bBWI |-> source[8],
                        wLevelParameter |-> LittleEndian(SubSeq(source, 9, 10))]
       [] cls = "ICCDRequestSetParameters" -> base @@ [bProtocolNum |-> source[8]]
       [] cls = "ICCDRequestICCClock" -> base @@ [bClockCommand |-> source[8]]
       [] cls = "ICCDRequestMechanical" -> base @@ [bFunction |-> source[8]]
       [] OTHER -> base

\* _ICCDStructRegistrar.guess_subtype_from_buffer called on ICCDRequestBase
guess_subtype_from_buffer(source) ==
  IF Len(source) < 1
  THEN [exc |-> "ValueError", ret |-> None]
  ELSE IF source[1] \notin REGISTERED_TYPES \/ ~IsRequestClass(REGISTER(source[1]))
  THEN [exc |-> "ValueError", ret |-> None]
  ELSE IF Len(source) < sizeof(REGISTER(source[1]))
  THEN [exc |-> "ValueError", ret |-> None]
  ELSE [exc |-> "none", ret |-> from_buffer(REGISTER(source[1]), source)]

\* the fields of a response class, zero-initialised, with its bMessageType
ResponseFields(cls) ==
  LET base(type) == [cls |-> cls, bMessageType |-> type, dwLength |-> 0, bSlot |-> 0,
                     bSeq |-> 0, bmICCStatus |-> 0, bmRFU |-> 0,
                     bmCommandStatus |-> 0, bError |-> 0]
      t0 == [bProtocolNum |-> 0, bmFindexDindex |-> 0, bmTCCKS |-> 0, bGuardTime |-> 0,
             bmWaitingIntegers |-> 0, bClockStop |-> 0]
  IN CASE cls = "ICCDResponseDataBlock"
            -> base(MESSAGE_TYPE_DATA_BLOCK) @@ [bChainParameter |-> 0]
       [] cls = "ICCDResponseSlotStatus"
            -> base(MESSAGE_TYPE_SLOT_STATUS) @@ [bClockStatus |-> 0]
       [] cls = "ICCDResponseParameterT0"
            -> base(MESSAGE_TYPE_PARAMETERS) @@ t0
       [] cls = "ICCDResponseParameterT1"
            -> base(MESSAGE_TYPE_PARAMETERS) @@ t0 @@ [bIFSC |-> 0, bNadValue |-> 0]
       [] cls = "ICCDResponseEscape"
            -> base(MESSAGE_TYPE_ESCAPE_RESPONSE)
       [] cls = "ICCDResponseRateAndClock"
            -> base(MESSAGE_TYPE_RATE_AND_CLOCK)
                 @@ [bRFU |-> 0, dwClockFrequency |-> 0, dwDataRate |-> 0]

\* an __init__ whose defaults for bmCommandStatus and bError override the
\* keywords given
ICCDResponseBase_DefaultsWin(cls, kw) ==
  LET given == [bmCommandStatus |-> COMMAND_STATUS_OK, bError |-> 0] @@ kw
      object == given @@ ResponseFields(cls)
  IN [object EXCEPT !.bmICCStatus = @ % 4,
                    !.bmCommandStatus = @ % 4,
                    !.bError = CByte(@)]

\* an __init__ whose default for bmCommandStatus is Failed
ICCDResponseBase_DefaultFailed(cls, kw) ==
  LET given == kw @@ [bmCommandStatus |-> COMMAND_STATUS_FAILED, bError |-> 0]
      object == given @@ ResponseFields(cls)
  IN [object EXCEPT !.bmICCStatus = @ % 4,
                    !.bmCommandStatus = @ % 4,
                    !.bError = CByte(@)]

\* an __init__ over a structure whose bmICCStatus bit field is one bit wide
ICCDResponseBase_StatusBit(cls, kw) ==
  LET given == kw @@ [bmCommandStatus |-> COMMAND_STATUS_OK, bError |-> 0]
      object == given @@ ResponseFields(cls)
  IN [object EXCEPT !.bmICCStatus = @ % 2,
                    !.bmCommandStatus = @ % 4,
                    !.bError = CByte(@)]

\* ICCDResponseBase.__init__: a keyword that names a field sets the field
\* (narrowed to the field's type), any other keyword becomes a plain
\* attribute of the object and leaves the fields alone
ICCDResponseBase(cls, kw) ==
  LET given == kw @@ [bmCommandStatus |-> COMMAND_STATUS_OK, bError |-> 0]
      object == given @@ ResponseFields(cls)
  IN [object EXCEPT !.bmICCStatus = @ % 4,
                    !.bmCommandStatus = @ % 4,
                    !.bError = CByte(@)]

\* a dictionary whose two keys select the T=0 record
GET_PARAMETERS_STRUCT_DICT_T0Only(bProtocolNum) == "ICCDResponseParameterT0"

GET_PARAMETERS_STRUCT_DICT(bProtocolNum) ==
  IF bProtocolNum = 0 THEN "ICCDResponseParameterT0" ELSE "ICCDResponseParameterT1"

\* calling a response class: _ICCDResponseParametersBase.__new__ requires
\* bProtocolNum and returns an instance of the class it selects
NewResponse(cls, kw) ==
  IF cls = "_ICCDResponseParametersBase"
  THEN IF ~HasAttr(kw, "bProtocolNum")
       THEN [exc |-> "TypeError", ret |-> None]
       ELSE IF kw.bProtocolNum \notin {0, 1}
       THEN [exc |-> "KeyError", ret |-> None]
       ELSE [exc |-> "none",
             ret |-> ICCDResponseBase(GET_PARAMETERS_STRUCT_DICT(kw.bProtocolNum), kw)]
  ELSE [exc |-> "none", ret |-> ICCDResponseBase(cls, kw)]

\* getResponse that does not copy the request's bSeq
getResponse_NoSeq(self, body, kw) ==
  LET made == NewResponse(response_type(self.cls),
                          [dwLength |-> Len(body), bSlot |-> self.bSlot] @@ kw)
  IN IF made.exc # "none"
     THEN made
     ELSE [exc |-> "none", ret |-> Tuple(<<made.ret, body>>)]

\* ICCDRequestBase.getResponse
getResponse(self, body, kw) ==
  LET made == NewResponse(response_type(self.cls),
                          [dwLength |-> Len(body), bSlot |-> self.bSlot,
                           bSeq |-> self.bSeq] @@ kw)
  IN IF made.exc # "none"
     THEN made
     ELSE [exc |-> "none", ret |-> Tuple(<<made.ret, body>>)]

(***************************************************************************)
(* f_ccid/__init__.py: ICCDFunction.                                       *)
(***************************************************************************)
BULK_IN_INDEX == 1
BULK_OUT_INDEX == 2
INT_IN_INDEX == 3

\* functionfs.ch9, and errno
USB_DIR_IN == 128
USB_TYPE_MASK == 96
USB_TYPE_CLASS == 32
USB_RECIP_MASK == 31
USB_RECIP_INTERFACE == 1
ESHUTDOWN == 108

\* request_type & USB_TYPE_MASK, & USB_RECIP_MASK and & USB_DIR_IN
TypeOf(request_type) == ((request_type \div 32) % 4) * 32
RecipientOf(request_type) == request_type % 32
DirectionOf(request_type) == ((request_type \div 128) % 2) * 128

VARIABLES
  slot_list,   \* ICCDFunction.slot_list: slot index -> ICCDSlot
  enabled,     \* ICCDFunction._enabled
  raised,      \* the exception the last handler raised, "none" if it returned
  response,    \* the local `response' of the last __onOUTComplete or onSetup
  bulkIN,      \* the buffer list the last handler submitted on bulk-IN
  intIN,       \* the buffer list the last handler submitted on interrupt-IN
  ep0,         \* the calls the last handler made on endpoint 0
  cardCalls,   \* the card methods the last handler called, in order
  slotOps,     \* the insert/remove/powerOn/powerOff the last handler called
  event        \* the last handler and its arguments

vars == <<slot_list, enabled, raised, response, bulkIN, intIN, ep0, cardCalls, slotOps, event>>

NoKw == [k \in {} |-> 0]

\* a buffer of a buffer list: a serialised structure, or body bytes
Serialised(head) == [serialised |-> head]
Bytes(body) == [bytes |-> body]

SlotOp(index, op, exc) == [slot |-> index, op |-> op, done |-> exc = "none"]

\* what onICCDRequest leaves: the slots, the returned value or the
\* exception, the card calls and the slot operations
Done(slots, ret, exc, calls, ops) ==
  [slot_list |-> slots, ret |-> ret, exc |-> exc, calls |-> calls, ops |-> ops]

\* `return (made, )' where building the response may raise
ReturnOne(slots, made, calls, ops) ==
  IF made.exc # "none"
  THEN Done(slots, None, made.exc, calls, ops)
  ELSE Done(slots, Tuple(<<made.ret>>), "none", calls, ops)

\* the loop of the XFR_BLOCK branch as `while chunk_cutoff <
\* len(response_body)': no response for an empty response body
RECURSIVE Fragments_WhileRemaining(_, _, _)
Fragments_WhileRemaining(response_body, chunk_cutoff, start) ==
  LET previous_cutoff == chunk_cutoff
      cutoff == chunk_cutoff + DATA_MAX_LENGTH
      chunk == Slice(response_body, previous_cutoff, cutoff)
      stop == cutoff >= Len(response_body)
      this == [bChainParameter |-> START_STOP_TO_CHAIN_DICT(start, stop), body |-> chunk]
  IN IF chunk_cutoff >= Len(response_body) THEN <<>>
     ELSE <<this>> \o Fragments_WhileRemaining(response_body, cutoff, FALSE)

\* the loop of the XFR_BLOCK branch: the (bChainParameter, chunk) of every
\* response, from chunk_cutoff on
RECURSIVE Fragments(_, _, _)
Fragments(response_body, chunk_cutoff, start) ==
  LET previous_cutoff == chunk_cutoff
      cutoff == chunk_cutoff + DATA_MAX_LENGTH
      chunk == Slice(response_body, previous_cutoff, cutoff)
      stop == Len(chunk) < DATA_MAX_LENGTH
      this == [bChainParameter |-> START_STOP_TO_CHAIN_DICT(start, stop), body |-> chunk]
  IN IF stop THEN <<this>>
     ELSE <<this>> \o Fragments(response_body, cutoff, FALSE)

onICCDRequest(slots, head, body, reply) ==
  LET message_type == head.bMessageType
      index == head.bSlot
  IN
  IF index \notin DOMAIN slots
  THEN Done(slots, None, "IndexError", <<>>, <<>>)
  ELSE
  LET slot == slots[index]
      getErrorResponse(now, error, kw) ==
        getResponse(head, NO_DATA,
                    [bmICCStatus |-> now.status,
                     bmCommandStatus |-> COMMAND_STATUS_FAILED,
                     bError |-> error] @@ kw)
      getResponseOf(now, kw, data) ==
        getResponse(head, data, [bmICCStatus |-> now.status] @@ kw)
      Error(error, kw) == ReturnOne(slots, getErrorResponse(slot, error, kw), <<>>, <<>>)
  IN
  IF message_type = MESSAGE_TYPE_ABORT
  THEN IF head.dwLength # 0
       THEN Error(ERROR_BAD_LENGTH, NoKw)
       ELSE LET made == getResponseOf(slot, [bClockStatus |-> CLOCK_STATUS_RUNNING], NO_DATA)
                abort == abortFromBulk(slot, made.ret)
                after == [slots EXCEPT ![index] = abort.slot]
            IN IF abort.exc # "none"
               THEN Done(after, None, abort.exc, <<>>, <<>>)
               ELSE Done(after, Tuple(<<abort.ret>>), "none", <<>>, <<>>)
  ELSE IF message_type = MESSAGE_TYPE_POWER_OFF
  THEN LET off == powerOff(slot)
       IN ReturnOne([slots EXCEPT ![index] = off.slot],
                    getResponseOf(off.slot, [bClockStatus |-> CLOCK_STATUS_RUNNING], NO_DATA),
                    off.calls, <<SlotOp(index, "powerOff", off.exc)>>)
  ELSE IF message_type = MESSAGE_TYPE_GET_SLOT_STATUS
  THEN IF head.dwLength # 0
       THEN Error(ERROR_BAD_LENGTH, NoKw)
       ELSE ReturnOne(slots,
                      getResponseOf(slot, [bClockStatus |-> CLOCK_STATUS_RUNNING], NO_DATA),
                      <<>>, <<>>)
  ELSE IF message_type = MESSAGE_TYPE_SET_RATE_AND_CLOCK
  THEN Error(ERROR_CMD_NOT_SUPPORTED, NoKw)
  ELSE IF slot.status = ICC_STATUS_NOT_PRESENT
  THEN Error(ERROR_ICC_MUTE, NoKw)
  ELSE IF message_type \in {MESSAGE_TYPE_GET_PARAMETERS, MESSAGE_TYPE_RESET_PARAMETERS,
                            MESSAGE_TYPE_SET_PARAMETERS}
  THEN IF message_type = MESSAGE_TYPE_SET_PARAMETERS /\ head.bProtocolNum # 1
       THEN Error(ERROR_PROTOCOLNUM_NOT_SUPPORTED, [bProtocolNum |-> 0])
       ELSE IF message_type = MESSAGE_TYPE_SET_PARAMETERS
               /\ head.dwLength \notin {ICCD_REQUEST_SET_PARAMETERS_T1_LENGTH}
       THEN Error(ERROR_BAD_LENGTH, [bProtocolNum |-> 0])
       ELSE IF message_type # MESSAGE_TYPE_SET_PARAMETERS /\ head.dwLength # 0
       THEN Error(ERROR_BAD_LENGTH, [bProtocolNum |-> 0])
       ELSE ReturnOne(slots,
                      getResponseOf(slot,
                                    [bProtocolNum |-> 1,
                                     bmFindexDindex |-> 17,
                                     bmTCCKST |-> 17,
                                     bGuardTimeT |-> 254,
                                     bmWaitingIntegersT |-> 85,
                                     bClockStop |-> CLOCK_STATUS_STOPPED,
                                     bIFSC |-> 254,
                                     bNadValue |-> 0],
                                    NO_DATA),
                      <<>>, <<>>)
  ELSE IF message_type = MESSAGE_TYPE_ICC_CLOCK
  THEN Error(ERROR_CMD_NOT_SUPPORTED, NoKw)
  ELSE IF message_type = MESSAGE_TYPE_MECHANICAL
  THEN Error(ERROR_CMD_NOT_SUPPORTED, NoKw)
  ELSE IF isAborting(slot)
  THEN Error(ERROR_CMD_ABORTED, NoKw)
  ELSE IF message_type = MESSAGE_TYPE_POWER_ON
  THEN IF head.dwLength # 0
       THEN Error(ERROR_BAD_LENGTH, NoKw)
       ELSE IF head.bPowerSelect # 0
       THEN Error(ERROR_POWERSELECT_NOT_SUPPORTED, NoKw)
       ELSE LET on == powerOn(slot)
                after == [slots EXCEPT ![index] = on.slot]
                ops == <<SlotOp(index, "powerOn", on.exc)>>
            IN IF on.exc # "none"
               THEN Done(after, None, on.exc, on.calls, ops)
               ELSE ReturnOne(after,
                              getResponseOf(on.slot,
                                            [bChainParameter |-> CHAIN_BEGIN_AND_END],
                                            on.ret),
                              on.calls, ops)
  ELSE IF message_type = MESSAGE_TYPE_XFR_BLOCK
  THEN IF Len(body) # head.dwLength
       THEN Error(ERROR_BAD_LENGTH, NoKw)
       ELSE IF head.wLevelParameter \notin CHAIN_TO_START_STOP_KEYS
       THEN Error(ERROR_BAD_WLEVEL, NoKw)
       ELSE LET level == CHAIN_TO_START_STOP_DICT(head.wLevelParameter)
                cleared == IF level.start THEN clearAPDU(slot) ELSE slot
                stored == storeAPDU(cleared, body)
            IN IF level.stop
               THEN LET run == runAPDU(stored, reply)
                        after == [slots EXCEPT ![index] = run.slot]
                        chunks == Fragments(run.ret, 0, TRUE)
                        result == [k \in DOMAIN chunks |->
                                     getResponseOf(run.slot,
                                                   [bChainParameter |-> chunks[k].bChainParameter],
                                                   chunks[k].body).ret]
                    IN IF run.exc # "none"
                       THEN Done(after, None, run.exc, run.calls, <<>>)
                       ELSE Done(after, Tuple(result), "none", run.calls, <<>>)
               ELSE ReturnOne([slots EXCEPT ![index] = stored],
                              getResponseOf(stored, [bChainParameter |-> CHAIN_CONTINUE], NO_DATA),
                              <<>>, <<>>)
  ELSE Error(ERROR_CMD_NOT_SUPPORTED, NoKw)

\* __submitINIterator with buffer_list.insert(0, ...) for append: the
\* buffers in reverse order
submitINIterator_Prepends(response_) ==
  LET items == response_.tuple
      Unpacks(item) == IsTuple(item) /\ Len(item.tuple) = 2
      BufferOf(item) ==
        IF item.tuple[2] # <<>>
        THEN <<Bytes(item.tuple[2]), Serialised(item.tuple[1])>>
        ELSE <<Serialised(item.tuple[1])>>
      Build[k \in 0 .. Len(items)] ==
        IF k = 0 THEN <<>> ELSE BufferOf(items[k]) \o Build[k - 1]
  IN IF \E k \in DOMAIN items : ~Unpacks(items[k])
     THEN [exc |-> "TypeError", buffer_list |-> <<>>]
     ELSE IF Build[Len(items)] = <<>>
     THEN [exc |-> "ValueError", buffer_list |-> <<>>]
     ELSE [exc |-> "none", buffer_list |-> Build[Len(items)]]

\* __submitINIterator up to the submit call: the buffer list, or the
\* exception raised while building it
submitINIterator(response_) ==
  LET items == response_.tuple
      Unpacks(item) == IsTuple(item) /\ Len(item.tuple) = 2
      BufferOf(item) ==
        IF item.tuple[2] # <<>>
        THEN <<Serialised(item.tuple[1]), Bytes(item.tuple[2])>>
        ELSE <<Serialised(item.tuple[1])>>
      Build[k \in 0 .. Len(items)] ==
        IF k = 0 THEN <<>> ELSE Build[k - 1] \o BufferOf(items[k])
  IN IF \E k \in DOMAIN items : ~Unpacks(items[k])
     THEN [exc |-> "TypeError", buffer_list |-> <<>>]
     ELSE IF Build[Len(items)] = <<>>
     THEN [exc |-> "ValueError", buffer_list |-> <<>>]
     ELSE [exc |-> "none", buffer_list |-> Build[Len(items)]]

\* ICCDNotifySlotChange: one present bit and one changed bit per slot
ICCDNotifySlotChange(slot_state_list) ==
  [cls |-> "ICCDNotifySlotChange",
   bMessageType |-> MESSAGE_TYPE_SLOT_CHANGE,
   present |-> [i \in DOMAIN slot_state_list |->
                  IF slot_state_list[i].present THEN 1 ELSE 0],
   changed |-> [i \in DOMAIN slot_state_list |->
                  IF slot_state_list[i].changed THEN 1 ELSE 0]]

\* __notifySlotChange without the test of self._enabled
notifySlotChange_Unguarded(slots, isEnabled) ==
  LET notes == [i \in DOMAIN slots |-> getSlotChangeNotification(slots[i])]
      message == ICCDNotifySlotChange([i \in DOMAIN slots |-> notes[i].ret])
  IN [slot_list |-> [i \in DOMAIN slots |-> notes[i].slot],
      buffer_list |-> submitINIterator(Tuple(<<Tuple(<<message, NO_DATA>>)>>)).buffer_list]

\* __notifySlotChange: the slots afterwards and the buffer list submitted
\* on interrupt-IN (the body of the message is None: no buffer for it)
notifySlotChange(slots, isEnabled) ==
  IF isEnabled
  THEN LET notes == [i \in DOMAIN slots |-> getSlotChangeNotification(slots[i])]
           message == ICCDNotifySlotChange([i \in DOMAIN slots |-> notes[i].ret])
       IN [slot_list |-> [i \in DOMAIN slots |-> notes[i].slot],
           buffer_list |-> submitINIterator(Tuple(<<Tuple(<<message, NO_DATA>>)>>)).buffer_list]
  ELSE [slot_list |-> slots, buffer_list |-> <<>>]

\* a loop that leaves after the first slot
PowerOffAll_FirstOnly(slots) ==
  [slot_list |-> [i \in DOMAIN slots |-> IF i = 0 THEN powerOff(slots[i]).slot ELSE slots[i]],
   calls |-> powerOff(slots[0]).calls,
   ops |-> <<SlotOp(0, "powerOff", "none")>>]

\* every slot powered off, in slot order
PowerOffAll(slots) ==
  [slot_list |-> [i \in DOMAIN slots |-> powerOff(slots[i]).slot],
   calls |-> LET Calls[k \in -1 .. (Cardinality(DOMAIN slots) - 1)] ==
                   IF k = -1 THEN <<>> ELSE Calls[k - 1] \o powerOff(slots[k]).calls
             IN Calls[Cardinality(DOMAIN slots) - 1],
   ops |-> [k \in 1 .. Cardinality(DOMAIN slots) |-> SlotOp(k - 1, "powerOff", "none")]]

\* the state a handler leaves
Leaves(slots, isEnabled, exc, resp, bulk, int, control, calls, ops, ev) ==
  /\ slot_list' = slots
  /\ enabled' = isEnabled
  /\ raised' = exc
  /\ response' = resp
  /\ bulkIN' = bulk
  /\ intIN' = int
  /\ ep0' = control
  /\ cardCalls' = calls
  /\ slotOps' = ops
  /\ event' = ev

Init ==
  /\ slot_list = [i \in SlotIds |-> ICCDSlot]
  /\ enabled = FALSE
  /\ raised = "none"
  /\ response = None
  /\ bulkIN = <<>>
  /\ intIN = <<>>
  /\ ep0 = <<>>
  /\ cardCalls = <<>>
  /\ slotOps = <<>>
  /\ event = [handler |-> "__init__"]

\* the application inserts a card it holds into slot index
Insert(index, card) ==
  /\ \A other \in DOMAIN slot_list \ {index} : slot_list[other].card # card
  /\ \E done \in {insert(slot_list[index], card)} :
       LET ev == [handler |-> "insert", slot |-> index, card |-> card]
           ops == <<SlotOp(index, "insert", done.exc)>>
       IN IF done.exc # "none"
          THEN Leaves(slot_list, enabled, done.exc, None, <<>>, <<>>, <<>>, <<>>, ops, ev)
          ELSE \E note \in {notifySlotChange([slot_list EXCEPT ![index] = done.slot],
                                             enabled)} :
                 Leaves(note.slot_list, enabled, "none", None, <<>>, note.buffer_list, <<>>,
                        done.calls, ops, ev)

\* the application removes the card of slot index
Remove(index) ==
  \E done \in {remove(slot_list[index])} :
    LET ev == [handler |-> "remove", slot |-> index, ret |-> done.ret]
        ops == <<SlotOp(index, "remove", done.exc)>>
    IN IF done.exc # "none"
       THEN Leaves(slot_list, enabled, done.exc, None, <<>>, <<>>, <<>>, <<>>, ops, ev)
       ELSE \E note \in {notifySlotChange([slot_list EXCEPT ![index] = done.slot],
                                          enabled)} :
              Leaves(note.slot_list, enabled, "none", None, <<>>, note.buffer_list, <<>>,
                     done.calls, ops, ev)

onBind ==
  LET note == notifySlotChange(slot_list, enabled)
  IN Leaves(note.slot_list, enabled, "none", None, <<>>, note.buffer_list, <<>>, <<>>, <<>>,
            [handler |-> "onBind"])

onUnbind ==
  LET off == PowerOffAll(slot_list)
  IN Leaves(off.slot_list, FALSE, "none", None, <<>>, <<>>, <<>>, off.calls, off.ops,
            [handler |-> "onUnbind"])

onEnable ==
  LET note == notifySlotChange(slot_list, TRUE)
  IN Leaves(note.slot_list, TRUE, "none", None, <<>>, note.buffer_list, <<>>, <<>>, <<>>,
            [handler |-> "onEnable"])

onDisable ==
  LET off == PowerOffAll(slot_list)
  IN Leaves(off.slot_list, FALSE, "none", None, <<>>, <<>>, <<>>, off.calls, off.ops,
            [handler |-> "onDisable"])

\* the clock and rate lists, and struct.pack('<I', x) of their entries joined
clock_list == <<3580>>
rate_list == <<9600>>
PackList(list) ==
  LET Pack[k \in 0 .. Len(list)] ==
        IF k = 0 THEN <<>> ELSE Pack[k - 1] \o ToLittleEndian(list[k], 4)
  IN Pack[Len(list)]

onSetup(request_type, request, value, index, length) ==
  LET ev == [handler |-> "onSetup", request_type |-> request_type, request |-> request,
             value |-> value, index |-> index, length |-> length]
      Quiet(control) ==
        Leaves(slot_list, enabled, "none", None, <<>>, <<>>, control, <<>>, <<>>, ev)
      super == Quiet(<<[call |-> "super().onSetup"]>>)
  IN
  IF TypeOf(request_type) = USB_TYPE_CLASS /\ RecipientOf(request_type) = USB_RECIP_INTERFACE
  THEN IF DirectionOf(request_type) = USB_DIR_IN
       THEN IF request = CCID_REQ_GET_CLOCK_FREQUENCIES
            THEN Quiet(<<[call |-> "write", data |-> Slice(PackList(clock_list), 0, length)]>>)
            ELSE IF request = CCID_REQ_GET_DATA_RATES
            THEN Quiet(<<[call |-> "write", data |-> Slice(PackList(rate_list), 0, length)]>>)
            ELSE super
       ELSE IF request = CCID_REQ_ABORT
            THEN LET slot_index == value % 256
                 IN IF slot_index \notin DOMAIN slot_list
                    THEN Leaves(slot_list, enabled, "IndexError", None, <<>>, <<>>, <<>>,
                                <<>>, <<>>, ev)
                    ELSE \E abort \in {abortFromControl(slot_list[slot_index],
                                                         value \div 256)} :
                         LET after == [slot_list EXCEPT ![slot_index] = abort.slot]
                         IN IF abort.exc # "none"
                            THEN Leaves(after, enabled, abort.exc, None, <<>>, <<>>, <<>>,
                                        <<>>, <<>>, ev)
                            ELSE IF abort.ret = ABORT_MARKER
                            THEN Leaves(after, enabled, "none", abort.ret, <<>>, <<>>,
                                        <<[call |-> "read", size |-> 0]>>, <<>>, <<>>, ev)
                            ELSE \E sent \in {submitINIterator(abort.ret)} :
                                 IF sent.exc # "none"
                                 THEN Leaves(after, enabled, sent.exc, abort.ret, <<>>, <<>>,
                                             <<>>, <<>>, <<>>, ev)
                                 ELSE Leaves(after, enabled, "none", abort.ret,
                                             sent.buffer_list, <<>>,
                                             <<[call |-> "read", size |-> 0]>>, <<>>, <<>>, ev)
            ELSE super
  ELSE super

\* __onOUTComplete, the card answering reply if its runAPDU is called
onOUTComplete(data, status, reply) ==
  LET ev == [handler |-> "onOUTComplete", data |-> data, status |-> status]
  IN
  IF status < 0
  THEN Leaves(slot_list, enabled, IF status = -ESHUTDOWN THEN "none" ELSE "IOError",
              None, <<>>, <<>>, <<>>, <<>>, <<>>, ev)
  ELSE \E message \in {guess_subtype_from_buffer(data)} :
  IF message.exc # "none"
  THEN Leaves(slot_list, enabled, message.exc, None, <<>>, <<>>, <<>>, <<>>, <<>>, ev)
  ELSE \E outcome \in {onICCDRequest(slot_list, message.ret,
                                     Slice(data, sizeof(message.ret.cls), Len(data)),
                                     reply)} :
  IF outcome.exc # "none"
  THEN Leaves(outcome.slot_list, enabled, outcome.exc, None, <<>>, <<>>, <<>>,
              outcome.calls, outcome.ops, ev)
  ELSE IF outcome.ret = ABORT_MARKER
  THEN Leaves(outcome.slot_list, enabled, "none", outcome.ret, <<>>, <<>>, <<>>,
              outcome.calls, outcome.ops, ev)
  ELSE \E sent \in {submitINIterator(outcome.ret)} :
  IF sent.exc # "none"
  THEN Leaves(outcome.slot_list, enabled, sent.exc, outcome.ret, <<>>, <<>>, <<>>,
              outcome.calls, outcome.ops, ev)
  ELSE Leaves(outcome.slot_list, enabled, "none", outcome.ret, sent.buffer_list, <<>>, <<>>,
              outcome.calls, outcome.ops, ev)

(***************************************************************************)
(* The inputs: what the host sends and what the application does.          *)
(***************************************************************************)
\* a bulk-OUT buffer: the 10-byte header followed by the body
Buffer(bMessageType, dwLength, bSlot, bSeq, tail, body) ==
  <<bMessageType>> \o ToLittleEndian(dwLength, 4) \o <<bSlot, bSeq>> \o tail \o body

\* a slot index the host may send that is no slot: one past the last
NoSlot == NumSlots
Zero3 == <<0, 0, 0>>
UNKNOWN_TYPE == CHOOSE t \in 0 .. 255 : t \notin REGISTERED_TYPES
RequestTypes ==
  {MESSAGE_TYPE_ABORT, MESSAGE_TYPE_POWER_OFF, MESSAGE_TYPE_GET_SLOT_STATUS,
   MESSAGE_TYPE_GET_PARAMETERS, MESSAGE_TYPE_RESET_PARAMETERS, MESSAGE_TYPE_SET_PARAMETERS,
   MESSAGE_TYPE_SET_RATE_AND_CLOCK, MESSAGE_TYPE_ICC_CLOCK, MESSAGE_TYPE_MECHANICAL,
   MESSAGE_TYPE_ESCAPE, MESSAGE_TYPE_T0_APDU, MESSAGE_TYPE_SECURE,
   MESSAGE_TYPE_POWER_ON, MESSAGE_TYPE_XFR_BLOCK}

\* ABORT with every sequence number; the other requests carry the last one
AbortRequests ==
  {Buffer(MESSAGE_TYPE_ABORT, 0, i, q, Zero3, <<>>) : i \in SlotIds, q \in Seqs}

\* every request type, and two types that are no request, on every slot
PlainRequests ==
  {Buffer(t, 0, i, MaxSeq, Zero3, <<>>) :
     t \in (RequestTypes \ {MESSAGE_TYPE_SET_PARAMETERS})
             \cup {UNKNOWN_TYPE, MESSAGE_TYPE_DATA_BLOCK},
     i \in SlotIds}

\* requests addressed to the slot index one past the last slot
StrayRequests ==
  {Buffer(t, 0, NoSlot, MaxSeq, Zero3, <<>>) :
     t \in {MESSAGE_TYPE_GET_SLOT_STATUS, MESSAGE_TYPE_ABORT}}

\* a dwLength that is not 0
LengthRequests ==
  {Buffer(t, 1, i, MaxSeq, Zero3, <<>>) :
     t \in {MESSAGE_TYPE_ABORT, MESSAGE_TYPE_POWER_OFF, MESSAGE_TYPE_GET_SLOT_STATUS,
            MESSAGE_TYPE_GET_PARAMETERS, MESSAGE_TYPE_RESET_PARAMETERS},
     i \in SlotIds}

SetParametersRequests ==
  {Buffer(MESSAGE_TYPE_SET_PARAMETERS, n, i, MaxSeq, <<p, 0, 0>>, <<>>) :
     n \in {0, ICCD_REQUEST_SET_PARAMETERS_T1_LENGTH}, i \in SlotIds, p \in {0, 1}}

\* POWER_ON with a dwLength, with a bPowerSelect, and with both, that are
\* not 0
PowerOnRequests ==
  {Buffer(MESSAGE_TYPE_POWER_ON, 1, i, MaxSeq, Zero3, <<>>) : i \in SlotIds}
    \cup {Buffer(MESSAGE_TYPE_POWER_ON, n, i, MaxSeq, <<1, 0, 0>>, <<>>) :
            n \in {0, 1}, i \in SlotIds}

\* XFR_BLOCK with a body of the announced length (1 in a chunk to store,
\* 0 in the chunk that ends the APDU) at every level and at a level that
\* does not exist, and with a missing body
XfrBlockRequests ==
  {Buffer(MESSAGE_TYPE_XFR_BLOCK, 1, i, MaxSeq, <<0, level, 0>>, <<level % 2>>) :
     i \in SlotIds, level \in CHAIN_TO_START_STOP_KEYS \cup {4}}
    \cup {Buffer(MESSAGE_TYPE_XFR_BLOCK, 1, i, MaxSeq, <<0, level, 0>>, <<>>) :
            i \in SlotIds, level \in {CHAIN_BEGIN_AND_END, 4}}

\* buffers shorter than a header
ShortBuffers == {<<>>, <<MESSAGE_TYPE_GET_SLOT_STATUS, 0>>}

Requests ==
  AbortRequests \cup PlainRequests \cup StrayRequests \cup LengthRequests
    \cup SetParametersRequests \cup PowerOnRequests \cup XfrBlockRequests
    \cup ShortBuffers

\* whether handling the buffer calls card.runAPDU
RunsAPDU(data) ==
  /\ Len(data) >= 10
  /\ data[1] = MESSAGE_TYPE_XFR_BLOCK
  /\ LittleEndian(SubSeq(data, 9, 10)) \in {CHAIN_BEGIN_AND_END, CHAIN_END}

\* SETUP packets: bRequestType 0x21 is class/interface/OUT, 0xA1 is
\* class/interface/IN and 0x00 is standard/device/OUT
Setups ==
  {[request_type |-> 33, request |-> CCID_REQ_ABORT, value |-> i + 256 * q, length |-> 0] :
     i \in SlotIds, q \in Seqs}
  \cup {[request_type |-> 33, request |-> CCID_REQ_ABORT, value |-> NoSlot + 256 * MaxSeq,
         length |-> 0],
        [request_type |-> 161, request |-> CCID_REQ_GET_CLOCK_FREQUENCIES, value |-> 0,
         length |-> 4],
        [request_type |-> 161, request |-> CCID_REQ_GET_DATA_RATES, value |-> 0,
         length |-> 2],
        [request_type |-> 161, request |-> CCID_REQ_ABORT, value |-> 0, length |-> 0],
        [request_type |-> 0, request |-> CCID_REQ_ABORT, value |-> 0, length |-> 0]}

\* the host leaves at most MaxChunks chunks pending in a slot
WithinBounds(slots) == \A i \in DOMAIN slots : Len(slots[i].data) <= MaxChunks

Completion ==
  \/ \E data \in Requests :
       \E reply \in IF RunsAPDU(data) THEN CardReplies ELSE {<<>>} :
         /\ onOUTComplete(data, 0, reply)
         /\ WithinBounds(slot_list')
  \/ \E status \in {-ESHUTDOWN, -5} : onOUTComplete(<<>>, status, <<>>)

Setup ==
  \E s \in Setups : onSetup(s.request_type, s.request, s.value, 0, s.length)

Application ==
  \/ \E i \in SlotIds, c \in Cards : Insert(i, c)
  \/ \E i \in SlotIds : Remove(i)

Next ==
  \/ Application
  \/ onBind
  \/ onUnbind
  \/ onEnable
  \/ onDisable
  \/ Setup
  \/ Completion

Spec == Init /\ [][Next]_vars

(***************************************************************************)
(* Long card responses.  A second specification: a card that answers every *)
(* APDU with a response of a length around a multiple of DATA_MAX_LENGTH   *)
(* has been inserted, and the host sends XFR_BLOCK requests.               *)
(***************************************************************************)
\* the most DATA_MAX_LENGTH-byte chunks a card response fills completely
MaxFull == 2

\* the response lengths: every multiple of DATA_MAX_LENGTH up to MaxFull
\* of them, one byte less and one byte more
ReplyLengths ==
  {n \in {k * DATA_MAX_LENGTH + d : k \in 0 .. MaxFull, d \in {-1, 0, 1}} : n >= 0}

\* the cards with long responses: card n + 1 answers with n bytes
LongCards == {n + 1 : n \in ReplyLengths}
LongReply(card) == [k \in 1 .. (card - 1) |-> k % 7]

\* XFR_BLOCK at every level and with every sequence number, and
\* GET_SLOT_STATUS between them
ChainRequests ==
  {Buffer(MESSAGE_TYPE_XFR_BLOCK, 1, i, q, <<0, level, 0>>, <<level>>) :
     i \in SlotIds, q \in Seqs, level \in CHAIN_TO_START_STOP_KEYS}
    \cup {Buffer(MESSAGE_TYPE_GET_SLOT_STATUS, 0, i, MaxSeq, Zero3, <<>>) : i \in SlotIds}

\* the state insert(card) leaves after construction, for every long card
ChainInit ==
  \E card \in LongCards :
    /\ slot_list = [i \in SlotIds |->
                      IF i = 0 THEN insert(ICCDSlot, card).slot ELSE ICCDSlot]
    /\ enabled = FALSE
    /\ raised = "none"
    /\ response = None
    /\ bulkIN = <<>>
    /\ intIN = <<>>
    /\ ep0 = <<>>
    /\ cardCalls = <<>>
    /\ slotOps = <<SlotOp(0, "insert", "none")>>
    /\ event = [handler |-> "insert", slot |-> 0, card |-> card]

ChainCompletion ==
  \E data \in ChainRequests :
    /\ onOUTComplete(data, 0, LongReply(slot_list[data[6]].card))
    /\ WithinBounds(slot_list')

ChainNext == ChainCompletion

ChainSpec == ChainInit /\ [][ChainNext]_vars

(***************************************************************************)
(* A reader with one more slot.  A third specification: the function is    *)
(* constructed with slot_count = NumSlots + 1, the application holds one   *)
(* more card, and the host powers the cards on and off, sends them the     *)
(* first chunk of an APDU and aborts on both pipes.                        *)
(***************************************************************************)
PairInit ==
  /\ slot_list = [i \in 0 .. NumSlots |-> ICCDSlot]
  /\ enabled = FALSE
  /\ raised = "none"
  /\ response = None
  /\ bulkIN = <<>>
  /\ intIN = <<>>
  /\ ep0 = <<>>
  /\ cardCalls = <<>>
  /\ slotOps = <<>>
  /\ event = [handler |-> "__init__"]

PairApplication ==
  \/ \E i \in DOMAIN slot_list, c \in 1 .. (NumCards + 1) : Insert(i, c)
  \/ \E i \in DOMAIN slot_list : Remove(i)

PairCompletion ==
  \E i \in DOMAIN slot_list :
    \E data \in {Buffer(t, 0, i, MaxSeq, Zero3, <<>>) :
                   t \in {MESSAGE_TYPE_POWER_ON, MESSAGE_TYPE_POWER_OFF,
                          MESSAGE_TYPE_ABORT}}
                 \cup {Buffer(MESSAGE_TYPE_XFR_BLOCK, 1, i, MaxSeq, <<0, CHAIN_BEGIN, 0>>,
                              <<1>>)} :
      onOUTComplete(data, 0, <<>>)

PairSetup ==
  \E i \in DOMAIN slot_list : onSetup(33, CCID_REQ_ABORT, i + 256 * MaxSeq, 0, 0)

PairNext ==
  \/ PairApplication
  \/ PairSetup
  \/ onBind
  \/ onUnbind
  \/ onEnable
  \/ onDisable
  \/ PairCompletion

PairSpec == PairInit /\ [][PairNext]_vars

(***************************************************************************)
(* What the last handler was, read from `event'.                           *)
(***************************************************************************)
\* a bulk-OUT completion without transfer error
BulkArrived(ev) == ev.handler = "onOUTComplete" /\ ev.status = 0

\* the header the completion's buffer parses to
Header(ev) == guess_subtype_from_buffer(ev.data)

\* a request of one of the types, addressed to slot index
BulkRequest(ev, types, index) ==
  /\ BulkArrived(ev)
  /\ ev.data # <<>>
  /\ ev.data[1] \in types
  /\ Header(ev).exc = "none"
  /\ Header(ev).ret.bMessageType \in types
  /\ Header(ev).ret.bSlot = index

\* a bulk ABORT of sequence number sequence and dwLength 0 for slot index
BulkAbort(ev, index, sequence) ==
  /\ BulkRequest(ev, {MESSAGE_TYPE_ABORT}, index)
  /\ Header(ev).ret.bSeq = sequence
  /\ Header(ev).ret.dwLength = 0

\* a control CCID_REQ_ABORT of sequence number sequence for slot index
ControlAbort(ev, index, sequence) ==
  /\ ev.handler = "onSetup"
  /\ TypeOf(ev.request_type) = USB_TYPE_CLASS
  /\ RecipientOf(ev.request_type) = USB_RECIP_INTERFACE
  /\ DirectionOf(ev.request_type) # USB_DIR_IN
  /\ ev.request = CCID_REQ_ABORT
  /\ ev.value % 256 = index
  /\ ev.value \div 256 = sequence

\* a dispatcher result of exactly one (head, body) response
OneResponse(result) ==
  /\ IsTuple(result)
  /\ Len(result.tuple) = 1
  /\ IsTuple(result.tuple[1])
  /\ Len(result.tuple[1].tuple) = 2

HeadOf(result) == result.tuple[1].tuple[1]

\* one Failed response whose bError byte is error
Failed(result, error) ==
  /\ OneResponse(result)
  /\ HeadOf(result).bmCommandStatus = COMMAND_STATUS_FAILED
  /\ UByte(HeadOf(result).bError) = error

\* the response the ABORT branch of onICCDRequest prepares for a slot
AbortResponse(self, index, sequence) ==
  getResponse([cls |-> "ICCDRequestAbort", bMessageType |-> MESSAGE_TYPE_ABORT,
               dwLength |-> 0, bSlot |-> index, bSeq |-> sequence],
              NO_DATA,
              [bmICCStatus |-> self.status, bClockStatus |-> CLOCK_STATUS_RUNNING]).ret

\* the bSeq of a latched bulk response, NoSeq when none is latched
LatchedSeq(self) ==
  IF self.abort_response = None THEN NoSeq ELSE self.abort_response.tuple[1].bSeq

(***************************************************************************)
(* The abort rendezvous.                                                   *)
(***************************************************************************)
BulkThenControl(self, index, sequence) ==
  LET prepared == AbortResponse(self, index, sequence)
      bulk == abortFromBulk(self, prepared)
      control == abortFromControl(bulk.slot, sequence)
  IN /\ bulk.exc = "none" /\ bulk.ret = ABORT_MARKER
     /\ control.exc = "none" /\ control.ret = prepared
     /\ ~isAborting(control.slot)

ControlThenBulk(self, index, sequence) ==
  LET prepared == AbortResponse(self, index, sequence)
      control == abortFromControl(self, sequence)
      bulk == abortFromBulk(control.slot, prepared)
  IN /\ control.exc = "none" /\ control.ret = ABORT_MARKER
     /\ bulk.exc = "none" /\ bulk.ret = prepared
     /\ ~isAborting(bulk.slot)

\* C1: from a slot with both abort latches empty, for every sequence number,
\* abortFromBulk (with the prepared response of that bSeq) and
\* abortFromControl called in either order give the response from exactly
\* one call and ABORT_MARKER from the other, and leave both latches empty.
C1_AbortRendezvous ==
  \A i \in DOMAIN slot_list :
    ~isAborting(slot_list[i]) =>
      \A s \in Seqs : /\ ControlThenBulk(slot_list[i], i, s)
                      /\ BulkThenControl(slot_list[i], i, s)

\* C2: a bulk ABORT arriving on a slot with no control ABORT latched submits
\* nothing on bulk-IN, leaves ABORT_MARKER as the dispatcher result and
\* raises nothing; the control ABORT of the same sequence number arriving
\* afterwards submits the latched response on bulk-IN exactly once.
C2_BulkFirstAbort ==
  [][\A i \in DOMAIN slot_list, s \in Seqs :
       /\ (BulkAbort(event', i, s) /\ slot_list[i].abort_control_sequence = NoSeq)
            => /\ raised' = "none"
               /\ bulkIN' = <<>>
               /\ response' = ABORT_MARKER
       /\ (ControlAbort(event', i, s) /\ LatchedSeq(slot_list[i]) = s)
            => /\ raised' = "none"
               /\ bulkIN' = <<Serialised(slot_list[i].abort_response.tuple[1])>>]_vars

\* C3: a control ABORT arriving on a slot with no bulk response latched
\* submits nothing on bulk-IN and latches its sequence number; the bulk
\* ABORT of that sequence number (dwLength 0) arriving afterwards clears the
\* control latch and submits exactly one SLOT_STATUS of that bSeq on bulk-IN.
C3_ControlFirstAbort ==
  [][\A i \in DOMAIN slot_list, s \in Seqs :
       /\ (ControlAbort(event', i, s) /\ slot_list[i].abort_response = None)
            => /\ bulkIN' = <<>>
               /\ slot_list'[i].abort_control_sequence = s
       /\ (BulkAbort(event', i, s) /\ slot_list[i].abort_control_sequence = s)
            => /\ slot_list'[i].abort_control_sequence = NoSeq
               /\ Len(bulkIN') = 1
               /\ bulkIN'[1].serialised.bMessageType = MESSAGE_TYPE_SLOT_STATUS
               /\ bulkIN'[1].serialised.bSeq = s]_vars

\* C4 as stated: in every reachable state of every slot at most one of the
\* two abort latches is populated.
C4_AtMostOneLatch ==
  \A i \in DOMAIN slot_list :
    ~(slot_list[i].abort_control_sequence # NoSeq /\ slot_list[i].abort_response # None)

\* C4 as amended: the two abort latches of a slot are populated together
\* only with different sequence numbers; the held bulk response never
\* carries the stashed control sequence.
C4_LatchesNeverMatch ==
  \A i \in DOMAIN slot_list :
    slot_list[i].abort_control_sequence # NoSeq
      => LatchedSeq(slot_list[i]) # slot_list[i].abort_control_sequence

\* a bulk ABORT has just been latched beside a control ABORT of another
\* sequence number
C4_BothLatched ==
  \E i \in DOMAIN slot_list, s \in Seqs :
    /\ BulkAbort(event, i, s)
    /\ slot_list[i].abort_control_sequence \notin {NoSeq, s}
    /\ LatchedSeq(slot_list[i]) = s

\* C5: an abort latch changes only by the ABORT that populates it, or by
\* the complementary ABORT of the matching sequence number clearing it; a
\* complementary ABORT of another sequence number and every other operation
\* leave both latches as they were.
C5_LatchFrame ==
  [][\A i \in DOMAIN slot_list :
       LET before == slot_list[i]
           after == slot_list'[i]
       IN /\ after.abort_control_sequence # before.abort_control_sequence
               => \/ /\ before.abort_control_sequence = NoSeq
                     /\ ControlAbort(event', i, after.abort_control_sequence)
                  \/ /\ after.abort_control_sequence = NoSeq
                     /\ BulkAbort(event', i, before.abort_control_sequence)
          /\ after.abort_response # before.abort_response
               => \/ /\ before.abort_response = None
                     /\ BulkAbort(event', i, LatchedSeq(after))
                  \/ /\ after.abort_response = None
                     /\ ControlAbort(event', i, LatchedSeq(before))]_vars

\* a bulk ABORT has just cleared the control latch of its sequence number
\* and its response went out
C5_ControlLatchCleared ==
  \E i \in DOMAIN slot_list, s \in Seqs :
    /\ BulkAbort(event, i, s)
    /\ raised = "none"
    /\ bulkIN # <<>>
    /\ slot_list[i].abort_control_sequence = NoSeq

\* either abort latch of the slot is populated
EitherLatch(self) ==
  self.abort_control_sequence # NoSeq \/ self.abort_response # None

\* C6 as stated: while either abort latch of a slot is populated, every
\* non-ABORT bulk request addressed to the slot yields one Failed response
\* with bError = ERROR_CMD_ABORTED (stated for the requests that are
\* answered at all: the handler returned).
C6_AbortedWhileLatched ==
  [][\A i \in DOMAIN slot_list :
       (/\ EitherLatch(slot_list[i])
        /\ BulkRequest(event', RequestTypes \ {MESSAGE_TYPE_ABORT}, i)
        /\ raised' = "none")
         => Failed(response', ERROR_CMD_ABORTED)]_vars

\* the requests that reach the isAborting test of onICCDRequest
AbortGated ==
  {MESSAGE_TYPE_POWER_ON, MESSAGE_TYPE_XFR_BLOCK, MESSAGE_TYPE_ESCAPE,
   MESSAGE_TYPE_T0_APDU, MESSAGE_TYPE_SECURE}

\* C6 as amended: while either abort latch of a slot is populated and a card
\* is in the slot, every POWER_ON, XFR_BLOCK, ESCAPE, T0_APDU and SECURE
\* addressed to the slot yields one Failed response with bError =
\* ERROR_CMD_ABORTED, raises nothing and leaves the slot as it was.
C6_AbortGate ==
  [][\A i \in DOMAIN slot_list :
       (/\ EitherLatch(slot_list[i])
        /\ slot_list[i].status # ICC_STATUS_NOT_PRESENT
        /\ BulkRequest(event', AbortGated, i))
         => /\ raised' = "none"
            /\ Failed(response', ERROR_CMD_ABORTED)
            /\ slot_list'[i] = slot_list[i]]_vars

\* an XFR_BLOCK has just been refused with ERROR_CMD_ABORTED on a slot that
\* holds a card and a stashed control sequence
C6_AbortedReply ==
  \E i \in DOMAIN slot_list :
    /\ BulkRequest(event, {MESSAGE_TYPE_XFR_BLOCK}, i)
    /\ slot_list[i].abort_control_sequence # NoSeq
    /\ slot_list[i].status # ICC_STATUS_NOT_PRESENT
    /\ Failed(response, ERROR_CMD_ABORTED)

\* C7: a bulk request whose bSlot is no index of the slot list yields
\* exactly one response with bmICCStatus NotPresent, bmCommandStatus Failed
\* and bError ERROR_SLOT_DOES_NOT_EXIST, and changes no slot.
C7_SlotDoesNotExist ==
  [][(/\ BulkArrived(event')
      /\ Header(event').exc = "none"
      /\ Header(event').ret.bSlot \notin DOMAIN slot_list)
       => /\ raised' = "none"
          /\ Failed(response', ERROR_SLOT_DOES_NOT_EXIST)
          /\ HeadOf(response').bmICCStatus = ICC_STATUS_NOT_PRESENT
          /\ slot_list' = slot_list]_vars

\* the message types onICCDRequest has a branch for
Handled ==
  {MESSAGE_TYPE_ABORT, MESSAGE_TYPE_POWER_OFF, MESSAGE_TYPE_GET_SLOT_STATUS,
   MESSAGE_TYPE_SET_RATE_AND_CLOCK, MESSAGE_TYPE_GET_PARAMETERS,
   MESSAGE_TYPE_RESET_PARAMETERS, MESSAGE_TYPE_SET_PARAMETERS,
   MESSAGE_TYPE_ICC_CLOCK, MESSAGE_TYPE_MECHANICAL, MESSAGE_TYPE_POWER_ON,
   MESSAGE_TYPE_XFR_BLOCK}

\* C8: whatever buffer the host sends in whatever state, the bulk-OUT
\* completion ends with a response or ABORT_MARKER and raises nothing; a
\* buffer of a message type without handler, full header present, yields one
\* Failed response with bError = ERROR_CMD_NOT_SUPPORTED.
C8_NeverRaises ==
  BulkArrived(event) =>
    /\ raised = "none"
    /\ (response = ABORT_MARKER \/ (IsTuple(response) /\ Len(response.tuple) >= 1))
    /\ (Len(event.data) >= 10 /\ event.data[1] \notin Handled)
         => Failed(response, ERROR_CMD_NOT_SUPPORTED)

\* the slot operations the handler of a step called on slot index
OpsOn(ops, index) == {ops[k] : k \in {n \in DOMAIN ops : ops[n].slot = index}}

\* the declared status changes of the slot operations
StatusChange(op, before, after) ==
  \/ op = "insert" /\ before = ICC_STATUS_NOT_PRESENT /\ after = ICC_STATUS_INACTIVE
  \/ op = "remove" /\ after = ICC_STATUS_NOT_PRESENT
  \/ op = "powerOn" /\ before = ICC_STATUS_INACTIVE /\ after = ICC_STATUS_ACTIVE
  \/ op = "powerOff" /\ before = ICC_STATUS_ACTIVE /\ after = ICC_STATUS_INACTIVE

\* C9 as stated: every status change is the declared change of an
\* insert, remove, powerOn or powerOff just called on the slot, and the only
\* operation that completes leaving the status unchanged is powerOff on an
\* Inactive slot.
C9_NoOtherSelfLoop ==
  [][\A i \in DOMAIN slot_list :
       LET before == slot_list[i].status
           after == slot_list'[i].status
       IN /\ before # after
               => \E o \in OpsOn(slotOps', i) : StatusChange(o.op, before, after)
          /\ \A o \in OpsOn(slotOps', i) :
               (o.done /\ before = after)
                 => (o.op = "powerOff" /\ before = ICC_STATUS_INACTIVE)]_vars

\* C9 as amended: every status change is the declared change of an insert,
\* remove, powerOn or powerOff just called on the slot, and the operations
\* that complete leaving the status unchanged are powerOff on an Inactive
\* or NotPresent slot and powerOn on an Active slot.
C9_TransitionClosure ==
  [][\A i \in DOMAIN slot_list :
       LET before == slot_list[i].status
           after == slot_list'[i].status
       IN /\ before # after
               => \E o \in OpsOn(slotOps', i) : StatusChange(o.op, before, after)
          /\ \A o \in OpsOn(slotOps', i) :
               (o.done /\ before = after)
                 => \/ o.op = "powerOff"
                       /\ before \in {ICC_STATUS_INACTIVE, ICC_STATUS_NOT_PRESENT}
                    \/ o.op = "powerOn" /\ before = ICC_STATUS_ACTIVE]_vars

\* a POWER_OFF has just completed on a slot without card: powerOff was
\* called and returned, and the status is NotPresent as it was
C9_PowerOffWithoutCard ==
  \E i \in DOMAIN slot_list :
    /\ BulkRequest(event, {MESSAGE_TYPE_POWER_OFF}, i)
    /\ slotOps = <<SlotOp(i, "powerOff", "none")>>
    /\ slot_list[i].status = ICC_STATUS_NOT_PRESENT
    /\ raised = "none"
    /\ bulkIN # <<>>

\* C10: in every reachable state of every slot the status is NotPresent if
\* and only if no card is bound, and Inactive or Active if and only if a
\* card is bound.
C10_StatusIffCard ==
  \A i \in DOMAIN slot_list :
    /\ slot_list[i].status = ICC_STATUS_NOT_PRESENT <=> slot_list[i].card = NoCard
    /\ slot_list[i].status \in {ICC_STATUS_INACTIVE, ICC_STATUS_ACTIVE}
         <=> slot_list[i].card # NoCard

\* a card has just been removed from a slot that another slot operation
\* had left Active or Inactive: the slot is NotPresent and unbound again
C10_CardRemoved ==
  \E i \in DOMAIN slot_list :
    /\ event.handler = "remove"
    /\ event.slot = i
    /\ raised = "none"
    /\ cardCalls # <<>>
    /\ slot_list[i].status = ICC_STATUS_NOT_PRESENT
    /\ slot_list[i].card = NoCard

(***************************************************************************)
(* The chaining of long card responses.                                    *)
(***************************************************************************)
\* an XFR_BLOCK for slot index that was accepted and ran the stored APDU
XfrRun(ev, calls, index) ==
  /\ BulkRequest(ev, {MESSAGE_TYPE_XFR_BLOCK}, index)
  /\ calls # <<>>

\* C11 as stated: an XFR_BLOCK with stop set whose card response has N
\* bytes returns ceil(N / DATA_MAX_LENGTH) DATA_BLOCK responses, and 1
\* when N is 0.
C11_CeilingCount ==
  \A i \in SlotIds :
    XfrRun(event, cardCalls, i) =>
      LET N == Len(LongReply(slot_list[i].card))
      IN Len(response.tuple) =
           IF N = 0 THEN 1 ELSE (N + DATA_MAX_LENGTH - 1) \div DATA_MAX_LENGTH

\* C11 amended: an XFR_BLOCK with stop set whose card response has N bytes
\* is handled without exception and returns floor(N / DATA_MAX_LENGTH) + 1
\* responses, all of type DATA_BLOCK: an exact multiple of DATA_MAX_LENGTH
\* gets one more, empty, response.
C11_FragmentCount ==
  \A i \in SlotIds :
    XfrRun(event, cardCalls, i) =>
      LET N == Len(LongReply(slot_list[i].card))
      IN /\ raised = "none"
         /\ IsTuple(response)
         /\ Len(response.tuple) = (N \div DATA_MAX_LENGTH) + 1
         /\ \A k \in DOMAIN response.tuple :
              response.tuple[k].tuple[1].bMessageType = MESSAGE_TYPE_DATA_BLOCK

\* a response of exactly DATA_MAX_LENGTH bytes was fragmented
C11_ExactMultiple ==
  \E i \in SlotIds :
    /\ XfrRun(event, cardCalls, i)
    /\ Len(LongReply(slot_list[i].card)) = DATA_MAX_LENGTH
    /\ Len(response.tuple) = 2
    /\ response.tuple[2].tuple[2] = <<>>

\* C12: the bodies of the DATA_BLOCK responses to an XFR_BLOCK with stop
\* set, concatenated in order, are the card's response; every body has at
\* most DATA_MAX_LENGTH bytes and its head's dwLength is its length; and
\* bChainParameter is BEGIN_AND_END for a single response, otherwise BEGIN
\* first, END last and INTERMEDIATE in between.
C12_ChainRoundTrip ==
  \A i \in SlotIds :
    XfrRun(event, cardCalls, i) =>
      LET blocks == response.tuple
          n == Len(blocks)
          Joined[k \in 0 .. n] ==
            IF k = 0 THEN <<>> ELSE Joined[k - 1] \o blocks[k].tuple[2]
      IN /\ n >= 1
         /\ Joined[n] = LongReply(slot_list[i].card)
         /\ \A k \in 1 .. n :
              /\ Len(blocks[k].tuple[2]) <= DATA_MAX_LENGTH
              /\ blocks[k].tuple[1].dwLength = Len(blocks[k].tuple[2])
              /\ blocks[k].tuple[1].bChainParameter =
                   IF n = 1 THEN CHAIN_BEGIN_AND_END
                   ELSE IF k = 1 THEN CHAIN_BEGIN
                   ELSE IF k = n THEN CHAIN_END
                   ELSE CHAIN_INTERMEDIATE

\* a card response was returned as BEGIN, INTERMEDIATE and END responses
C12_ThreeBlocks ==
  \E i \in SlotIds :
    /\ XfrRun(event, cardCalls, i)
    /\ Len(response.tuple) = 3
    /\ response.tuple[2].tuple[1].bChainParameter = CHAIN_INTERMEDIATE
    /\ response.tuple[3].tuple[2] # <<>>

\* C15: the DATA_BLOCK responses one XFR_BLOCK produces are submitted on
\* bulk-IN by its own handler as one buffer list, in chain order: every
\* head followed by its body when the body is not empty, and nothing else.
C15_ContiguousGroup ==
  \A i \in SlotIds :
    XfrRun(event, cardCalls, i) =>
      LET blocks == response.tuple
          Group[k \in 0 .. Len(blocks)] ==
            IF k = 0 THEN <<>>
            ELSE Group[k - 1] \o <<Serialised(blocks[k].tuple[1])>>
                   \o (IF blocks[k].tuple[2] = <<>> THEN <<>>
                       ELSE <<Bytes(blocks[k].tuple[2])>>)
      IN bulkIN = Group[Len(blocks)]

\* two chained DATA_BLOCK responses with a body each were submitted
C15_ChainedGroup ==
  \E i \in SlotIds :
    /\ XfrRun(event, cardCalls, i)
    /\ Len(response.tuple) = 2
    /\ Len(bulkIN) = 4

(***************************************************************************)
(* The APDU buffer of a slot.                                              *)
(***************************************************************************)
\* C13: an accepted XFR_BLOCK first drops the stored chunks if start is
\* set and stores its body after the chunks kept; with stop set it passes
\* the chunks, joined in arrival order, to card.runAPDU and leaves the
\* buffer empty.  Any other handler leaves the buffer alone or, when it
\* calls powerOff, insert or remove on the slot, empty.
C13_Reassembly ==
  [][\A i \in SlotIds :
       LET before == slot_list[i].data
           after == slot_list'[i].data
           accepted == /\ BulkRequest(event', {MESSAGE_TYPE_XFR_BLOCK}, i)
                       /\ raised' = "none"
                       /\ HeadOf(response').bmCommandStatus = COMMAND_STATUS_OK
           level == CHAIN_TO_START_STOP_DICT(Header(event').ret.wLevelParameter)
           body == Slice(event'.data, 10, Len(event'.data))
           chunks == (IF level.start THEN <<>> ELSE before) \o <<body>>
           Joined[k \in 0 .. Len(chunks)] ==
             IF k = 0 THEN <<>> ELSE Joined[k - 1] \o chunks[k]
       IN IF accepted
          THEN IF level.stop
               THEN /\ cardCalls' = <<CardCall(slot_list[i].card, "runAPDU",
                                               Joined[Len(chunks)])>>
                    /\ after = <<>>
               ELSE /\ cardCalls' = <<>>
                    /\ after = chunks
          ELSE \/ after = before
               \/ /\ after = <<>>
                  /\ \E k \in DOMAIN slotOps' :
                       /\ slotOps'[k].slot = i
                       /\ slotOps'[k].op \in {"powerOff", "insert", "remove"}]_vars

\* an XFR_BLOCK with stop set ran an APDU of two stored chunks and its own
C13_ThreeChunks ==
  \E i \in SlotIds :
    /\ XfrRun(event, cardCalls, i)
    /\ raised = "none"
    /\ Len(cardCalls[1].arg) = 3
    /\ slot_list[i].data = <<>>

C16_RulePrecedence ==
  [][(BulkArrived(event') /\ Header(event').exc = "none") =>
       LET head == Header(event').ret
           type == head.bMessageType
           Answered == raised' = "none" /\ IsTuple(response')
       IN IF head.bSlot \notin DOMAIN slot_list
          THEN Answered /\ Failed(response', ERROR_SLOT_DOES_NOT_EXIST)
          ELSE IF type \in {MESSAGE_TYPE_ABORT, MESSAGE_TYPE_POWER_OFF,
                            MESSAGE_TYPE_GET_SLOT_STATUS}
          THEN \A error \in {ERROR_ICC_MUTE, ERROR_CMD_ABORTED, ERROR_CMD_NOT_SUPPORTED} :
                 ~Failed(response', error)
          ELSE IF type = MESSAGE_TYPE_SET_RATE_AND_CLOCK
          THEN Answered /\ Failed(response', ERROR_CMD_NOT_SUPPORTED)
          ELSE IF slot_list[head.bSlot].status = ICC_STATUS_NOT_PRESENT
          THEN Answered /\ Failed(response', ERROR_ICC_MUTE)
          ELSE IF type \in {MESSAGE_TYPE_GET_PARAMETERS, MESSAGE_TYPE_RESET_PARAMETERS,
                            MESSAGE_TYPE_SET_PARAMETERS}
          THEN /\ Answered
               /\ HeadOf(response').bMessageType = MESSAGE_TYPE_PARAMETERS
               /\ ~Failed(response', ERROR_CMD_ABORTED)
          ELSE IF type \in {MESSAGE_TYPE_ICC_CLOCK, MESSAGE_TYPE_MECHANICAL}
          THEN Answered /\ Failed(response', ERROR_CMD_NOT_SUPPORTED)
          ELSE IF EitherLatch(slot_list[head.bSlot])
          THEN Answered /\ Failed(response', ERROR_CMD_ABORTED)
          ELSE IF type \in {MESSAGE_TYPE_POWER_ON, MESSAGE_TYPE_XFR_BLOCK}
          THEN ~Failed(response', ERROR_CMD_NOT_SUPPORTED)
          ELSE Answered /\ Failed(response', ERROR_CMD_NOT_SUPPORTED)]_vars

\* C17: a request other than ABORT, POWER_OFF, GET_SLOT_STATUS and
\* SET_RATE_AND_CLOCK addressed to a slot whose status is NotPresent yields
\* exactly one Failed response with bError = ERROR_ICC_MUTE and
\* bmICCStatus = NotPresent, and no card operation is invoked.
C17_PresenceGate ==
  [][\A i \in DOMAIN slot_list :
       (/\ slot_list[i].status = ICC_STATUS_NOT_PRESENT
        /\ BulkRequest(event',
                       RequestTypes \ {MESSAGE_TYPE_ABORT, MESSAGE_TYPE_POWER_OFF,
                                       MESSAGE_TYPE_GET_SLOT_STATUS,
                                       MESSAGE_TYPE_SET_RATE_AND_CLOCK}, i))
         => /\ raised' = "none"
            /\ Failed(response', ERROR_ICC_MUTE)
            /\ HeadOf(response').bmICCStatus = ICC_STATUS_NOT_PRESENT
            /\ cardCalls' = <<>>
            /\ slotOps' = <<>>]_vars

\* C18: an ABORT, POWER_OFF or GET_SLOT_STATUS whose dwLength is not 0
\* yields one Failed response with bError = ERROR_BAD_LENGTH and has no
\* effect: the slot is as before and no slot or card operation is called.
C18_BadLength ==
  [][\A i \in DOMAIN slot_list :
       (/\ BulkRequest(event', {MESSAGE_TYPE_ABORT, MESSAGE_TYPE_POWER_OFF,
                                MESSAGE_TYPE_GET_SLOT_STATUS}, i)
        /\ Header(event').ret.dwLength # 0)
         => /\ raised' = "none"
            /\ Failed(response', ERROR_BAD_LENGTH)
            /\ slot_list' = slot_list
            /\ slotOps' = <<>>
            /\ cardCalls' = <<>>]_vars

(***************************************************************************)
(* The slot-change notification.                                           *)
(***************************************************************************)
\* C19: while the function is enabled, an insert or remove that succeeds
\* submits exactly one NotifySlotChange on interrupt-IN, in which the
\* slot it acted on has changed = 1 and every slot, that one included, has
\* present = 1 exactly if its status now is not NotPresent.
C19_SlotChangeNotified ==
  \A i \in DOMAIN slot_list :
    (/\ event.handler \in {"insert", "remove"}
     /\ event.slot = i
     /\ raised = "none"
     /\ enabled)
      => /\ Len(intIN) = 1
         /\ "serialised" \in DOMAIN intIN[1]
         /\ intIN[1].serialised.bMessageType = MESSAGE_TYPE_SLOT_CHANGE
         /\ intIN[1].serialised.changed[i] = 1
         /\ \A j \in DOMAIN slot_list :
              intIN[1].serialised.present[j] =
                IF slot_list[j].status # ICC_STATUS_NOT_PRESENT THEN 1 ELSE 0
         /\ bulkIN = <<>>

\* a card was removed from one slot while another slot held a powered card
\* and the function was enabled
C19_RemovedBesideCard ==
  \E i, j \in DOMAIN slot_list :
    /\ i # j
    /\ event.handler = "remove"
    /\ event.slot = i
    /\ raised = "none"
    /\ enabled
    /\ slot_list[j].status = ICC_STATUS_ACTIVE
    /\ intIN # <<>>

\* C20: getSlotChangeNotification returns changed equal to the flag before
\* the call and present equal to (status is not NotPresent), leaves the
\* flag false and changes nothing else of the slot; observed where onBind
\* and onEnable call it on every slot and send what it returned.
C20_ChangedFlag ==
  [][(event'.handler \in {"onBind", "onEnable"} /\ enabled') =>
       /\ Len(intIN') = 1
       /\ \A i \in DOMAIN slot_list :
            /\ intIN'[1].serialised.changed[i] = IF slot_list[i].changed THEN 1 ELSE 0
            /\ intIN'[1].serialised.present[i] =
                 IF slot_list[i].status # ICC_STATUS_NOT_PRESENT THEN 1 ELSE 0
            /\ slot_list'[i] = [slot_list[i] EXCEPT !.changed = FALSE]]_vars

\* onEnable reported a slot whose flag was set, and the flag is now reset
C20_FlagReported ==
  \E i \in DOMAIN slot_list :
    /\ event.handler = "onEnable"
    /\ intIN # <<>>
    /\ intIN[1].serialised.changed[i] = 1
    /\ ~slot_list[i].changed

(***************************************************************************)
(* The application's side: insert and remove.                              *)
(***************************************************************************)
\* C21: insert on a slot that holds a card and remove on a slot that holds
\* none raise RuntimeError, leave every slot as it was (card, status, APDU
\* buffer, changed flag, abort latches), submit nothing and call no card
\* operation.
C21_RefusedLeavesSlot ==
  [][\A i \in DOMAIN slot_list :
       (/\ event'.handler \in {"insert", "remove"}
        /\ event'.slot = i
        /\ (event'.handler = "insert") = (slot_list[i].card # NoCard))
         => /\ raised' = "RuntimeError"
            /\ slot_list' = slot_list
            /\ intIN' = <<>>
            /\ bulkIN' = <<>>
            /\ cardCalls' = <<>>]_vars

\* insert was refused on an enabled function whose slot holds a powered
\* card and a stored chunk
C21_InsertRefused ==
  \E i \in DOMAIN slot_list :
    /\ event.handler = "insert"
    /\ event.slot = i
    /\ raised = "RuntimeError"
    /\ enabled
    /\ slot_list[i].status = ICC_STATUS_ACTIVE
    /\ slot_list[i].data # <<>>

\* C22: a successful insert(c) leaves the slot holding c, Inactive, with an
\* empty APDU buffer; no step but a successful insert or remove on a slot
\* changes the card it holds; a successful remove returns the card the slot
\* held, after calling its clearVolatile, and leaves the slot without card,
\* NotPresent, with an empty APDU buffer.
C22_CardOwnership ==
  [][\A i \in DOMAIN slot_list :
       LET moved == /\ event'.handler \in {"insert", "remove"}
                    /\ event'.slot = i
                    /\ raised' = "none"
       IN /\ (moved /\ event'.handler = "insert")
               => /\ slot_list[i].card = NoCard
                  /\ slot_list'[i].card = event'.card
                  /\ slot_list'[i].status = ICC_STATUS_INACTIVE
                  /\ slot_list'[i].data = <<>>
          /\ (moved /\ event'.handler = "remove")
               => /\ slot_list[i].card \in Cards
                  /\ event'.ret = slot_list[i].card
                  /\ cardCalls' = <<CardCall(slot_list[i].card, "clearVolatile", <<>>)>>
                  /\ slot_list'[i].card = NoCard
                  /\ slot_list'[i].status = ICC_STATUS_NOT_PRESENT
                  /\ slot_list'[i].data = <<>>
          /\ ~moved => slot_list'[i].card = slot_list[i].card]_vars

\* remove has handed back the card of a slot of an enabled function, after
\* calling its clearVolatile
C22_CardReturned ==
  \E i \in DOMAIN slot_list :
    /\ event.handler = "remove"
    /\ event.slot = i
    /\ raised = "none"
    /\ event.ret \in Cards
    /\ cardCalls = <<CardCall(event.ret, "clearVolatile", <<>>)>>
    /\ slot_list[i].card = NoCard
    /\ enabled

\* C23: onUnbind and onDisable, from any state, leave the function disabled,
\* no slot Active, every APDU buffer empty and every slot holding the card
\* it held, and have called clearVolatile on the card of every slot that was
\* Active (and on no other).
C23_Shutdown ==
  [][event'.handler \in {"onUnbind", "onDisable"}
       => /\ enabled' = FALSE
          /\ raised' = "none"
          /\ \A i \in DOMAIN slot_list :
               /\ slot_list'[i].status # ICC_STATUS_ACTIVE
               /\ slot_list'[i].data = <<>>
               /\ slot_list'[i].card = slot_list[i].card
               /\ (slot_list[i].status = ICC_STATUS_ACTIVE)
                    = (\E k \in DOMAIN cardCalls' :
                         cardCalls'[k]
                           = CardCall(slot_list[i].card, "clearVolatile", <<>>))]_vars

\* onDisable found two cards of which it had to power off one
C23_OneOfTwoPoweredOff ==
  /\ event.handler = "onDisable"
  /\ \A i \in DOMAIN slot_list : slot_list[i].card # NoCard
  /\ cardCalls = <<CardCall(slot_list[NumSlots].card, "clearVolatile", <<>>)>>

(***************************************************************************)
(* POWER_ON and XFR_BLOCK.                                                 *)
(***************************************************************************)
\* C24: on a slot that holds a card and has no abort latched, POWER_ON with
\* dwLength = 0 and bPowerSelect = 0 returns exactly one DATA_BLOCK response
\* with bmCommandStatus = OK, the card's ATR as body, bChainParameter =
\* BEGIN_AND_END and bmICCStatus = Active, and leaves the slot Active.
C24_PowerOnSuccess ==
  [][\A i \in DOMAIN slot_list :
       (/\ slot_list[i].card # NoCard
        /\ ~isAborting(slot_list[i])
        /\ BulkRequest(event', {MESSAGE_TYPE_POWER_ON}, i)
        /\ Header(event').ret.dwLength = 0
        /\ Header(event').ret.bPowerSelect = 0)
         => /\ raised' = "none"
            /\ OneResponse(response')
            /\ HeadOf(response').bMessageType = MESSAGE_TYPE_DATA_BLOCK
            /\ HeadOf(response').bmCommandStatus = COMMAND_STATUS_OK
            /\ HeadOf(response').bChainParameter = CHAIN_BEGIN_AND_END
            /\ HeadOf(response').bmICCStatus = ICC_STATUS_ACTIVE
            /\ response'.tuple[1].tuple[2] = getATR(slot_list[i].card)
            /\ slot_list'[i].status = ICC_STATUS_ACTIVE]_vars

\* C25: on a slot that holds a card and has no abort latched, POWER_ON with
\* dwLength # 0 yields ERROR_BAD_LENGTH, otherwise with bPowerSelect # 0
\* ERROR_POWERSELECT_NOT_SUPPORTED; the slot is as before (its status in
\* particular) and neither powerOn nor card.getATR is called.
C25_PowerOnValidation ==
  [][\A i \in DOMAIN slot_list :
       (/\ slot_list[i].card # NoCard
        /\ ~isAborting(slot_list[i])
        /\ BulkRequest(event', {MESSAGE_TYPE_POWER_ON}, i)
        /\ (Header(event').ret.dwLength # 0 \/ Header(event').ret.bPowerSelect # 0))
         => /\ raised' = "none"
            /\ Failed(response',
                      IF Header(event').ret.dwLength # 0
                      THEN ERROR_BAD_LENGTH
                      ELSE ERROR_POWERSELECT_NOT_SUPPORTED)
            /\ slot_list' = slot_list
            /\ slotOps' = <<>>
            /\ cardCalls' = <<>>]_vars

\* a POWER_ON wrong in both fields was refused for its length, on a card
\* that is not powered
C25_LengthBeforePowerSelect ==
  \E i \in DOMAIN slot_list :
    /\ BulkRequest(event, {MESSAGE_TYPE_POWER_ON}, i)
    /\ Header(event).ret.dwLength # 0
    /\ Header(event).ret.bPowerSelect # 0
    /\ Failed(response, ERROR_BAD_LENGTH)
    /\ slot_list[i].status = ICC_STATUS_INACTIVE
    /\ ~isAborting(slot_list[i])

\* C26 as stated, on any slot: an XFR_BLOCK whose body length differs from
\* dwLength yields ERROR_BAD_LENGTH, otherwise one whose wLevelParameter is
\* no chain level yields ERROR_BAD_WLEVEL, the APDU buffer is unchanged
\* and card.runAPDU is not called.
C26_XfrValidationAnySlot ==
  [][\A i \in DOMAIN slot_list :
       (/\ BulkRequest(event', {MESSAGE_TYPE_XFR_BLOCK}, i)
        /\ (\/ Len(event'.data) - 10 # Header(event').ret.dwLength
            \/ Header(event').ret.wLevelParameter
                 \notin {CHAIN_BEGIN_AND_END, CHAIN_BEGIN, CHAIN_END, CHAIN_INTERMEDIATE}))
         => /\ raised' = "none"
            /\ Failed(response',
                      IF Len(event'.data) - 10 # Header(event').ret.dwLength
                      THEN ERROR_BAD_LENGTH
                      ELSE ERROR_BAD_WLEVEL)
            /\ slot_list'[i].data = slot_list[i].data
            /\ slotOps' = <<>>
            /\ cardCalls' = <<>>]_vars

\* C26, amended: the same for an XFR_BLOCK that passes the gates before
\* its branch, that is on a slot whose status is not NotPresent and that
\* has no abort latched.
C26_XfrValidation ==
  [][\A i \in DOMAIN slot_list :
       (/\ slot_list[i].status # ICC_STATUS_NOT_PRESENT
        /\ ~isAborting(slot_list[i])
        /\ BulkRequest(event', {MESSAGE_TYPE_XFR_BLOCK}, i)
        /\ (\/ Len(event'.data) - 10 # Header(event').ret.dwLength
            \/ Header(event').ret.wLevelParameter
                 \notin {CHAIN_BEGIN_AND_END, CHAIN_BEGIN, CHAIN_END, CHAIN_INTERMEDIATE}))
         => /\ raised' = "none"
            /\ Failed(response',
                      IF Len(event'.data) - 10 # Header(event').ret.dwLength
                      THEN ERROR_BAD_LENGTH
                      ELSE ERROR_BAD_WLEVEL)
            /\ slot_list'[i].data = slot_list[i].data
            /\ slotOps' = <<>>
            /\ cardCalls' = <<>>]_vars

\* an XFR_BLOCK with a body of the announced length and a level that does
\* not exist was refused on a slot with a stored chunk
C26_BadLevelRefused ==
  \E i \in DOMAIN slot_list :
    /\ BulkRequest(event, {MESSAGE_TYPE_XFR_BLOCK}, i)
    /\ Len(event.data) - 10 = Header(event).ret.dwLength
    /\ Header(event).ret.wLevelParameter = 4
    /\ Failed(response, ERROR_BAD_WLEVEL)
    /\ slot_list[i].data # <<>>

\* C27: an XFR_BLOCK that passes the gates and the validation and whose
\* level has stop unset (BEGIN or INTERMEDIATE) returns exactly one
\* DATA_BLOCK response with bChainParameter = CONTINUE, no body and
\* bmCommandStatus = OK, calls nothing on the card, and leaves the slot as
\* it was but for the APDU buffer: the chunks kept (none after BEGIN)
\* followed by the body of the request.
C27_ChunkStored ==
  [][\A i \in DOMAIN slot_list :
       (/\ slot_list[i].status # ICC_STATUS_NOT_PRESENT
        /\ ~isAborting(slot_list[i])
        /\ BulkRequest(event', {MESSAGE_TYPE_XFR_BLOCK}, i)
        /\ Len(event'.data) - 10 = Header(event').ret.dwLength
        /\ Header(event').ret.wLevelParameter \in {CHAIN_BEGIN, CHAIN_INTERMEDIATE})
         => /\ raised' = "none"
            /\ OneResponse(response')
            /\ HeadOf(response').bMessageType = MESSAGE_TYPE_DATA_BLOCK
            /\ HeadOf(response').bChainParameter = CHAIN_CONTINUE
            /\ HeadOf(response').bmCommandStatus = COMMAND_STATUS_OK
            /\ HeadOf(response').dwLength = 0
            /\ response'.tuple[1].tuple[2] = <<>>
            /\ cardCalls' = <<>>
            /\ slot_list'[i] =
                 [slot_list[i] EXCEPT
                    !.data = (IF Header(event').ret.wLevelParameter = CHAIN_BEGIN
                              THEN <<>>
                              ELSE @)
                               \o <<SubSeq(event'.data, 11, Len(event'.data))>>]]_vars

\* an INTERMEDIATE chunk was answered CONTINUE and stored behind a first
\* chunk
C27_SecondChunkStored ==
  \E i \in DOMAIN slot_list :
    /\ BulkRequest(event, {MESSAGE_TYPE_XFR_BLOCK}, i)
    /\ Header(event).ret.wLevelParameter = CHAIN_INTERMEDIATE
    /\ OneResponse(response)
    /\ HeadOf(response).bChainParameter = CHAIN_CONTINUE
    /\ Len(slot_list[i].data) = 2
    /\ slot_list[i].data[2] = SubSeq(event.data, 11, Len(event.data))

(***************************************************************************)
(* The parameter messages.                                                 *)
(***************************************************************************)
\* C28: on a slot that holds a card, SET_PARAMETERS with bProtocolNum # 1
\* yields ERROR_PROTOCOLNUM_NOT_SUPPORTED, otherwise with dwLength # 7
\* ERROR_BAD_LENGTH; GET_PARAMETERS and RESET_PARAMETERS with dwLength # 0
\* yield ERROR_BAD_LENGTH; every other parameter message gets one OK
\* response that is a T=1 parameter record; none of them changes a slot or
\* calls the card.
C28_ParameterValidation ==
  [][\A i \in DOMAIN slot_list :
       (/\ slot_list[i].card # NoCard
        /\ BulkRequest(event', {MESSAGE_TYPE_GET_PARAMETERS,
                                MESSAGE_TYPE_RESET_PARAMETERS,
                                MESSAGE_TYPE_SET_PARAMETERS}, i))
         => LET head == Header(event').ret
                set == head.bMessageType = MESSAGE_TYPE_SET_PARAMETERS
            IN /\ raised' = "none"
               /\ slot_list' = slot_list
               /\ slotOps' = <<>>
               /\ cardCalls' = <<>>
               /\ IF set /\ head.bProtocolNum # 1
                  THEN Failed(response', ERROR_PROTOCOLNUM_NOT_SUPPORTED)
                  ELSE IF head.dwLength # (IF set THEN 7 ELSE 0)
                  THEN Failed(response', ERROR_BAD_LENGTH)
                  ELSE /\ OneResponse(response')
                       /\ HeadOf(response').cls = "ICCDResponseParameterT1"
                       /\ HeadOf(response').bMessageType = MESSAGE_TYPE_PARAMETERS
                       /\ HeadOf(response').bmCommandStatus = COMMAND_STATUS_OK
                       /\ HeadOf(response').bProtocolNum = 1]_vars

\* SET_PARAMETERS for T=1 with the T=1 tail length was accepted on a
\* powered card
C28_SetParametersAccepted ==
  \E i \in DOMAIN slot_list :
    /\ BulkRequest(event, {MESSAGE_TYPE_SET_PARAMETERS}, i)
    /\ Header(event).ret.bProtocolNum = 1
    /\ Header(event).ret.dwLength = 7
    /\ OneResponse(response)
    /\ HeadOf(response).bmCommandStatus = COMMAND_STATUS_OK
    /\ slot_list[i].status = ICC_STATUS_ACTIVE

\* C29: the reply submitted for a GET_PARAMETERS, RESET_PARAMETERS or
\* SET_PARAMETERS that succeeds carries, in the fields of the T=1 parameter
\* record, bProtocolNum = 1, bmFindexDindex = 0x11, bmTCCKS = 0x11,
\* bGuardTime = 0xFE, bmWaitingIntegers = 0x55, bClockStop = 3 (Stopped),
\* bIFSC = 0xFE and bNadValue = 0.
C29_ParameterRecord ==
  \A i \in DOMAIN slot_list :
    (/\ BulkRequest(event, {MESSAGE_TYPE_GET_PARAMETERS, MESSAGE_TYPE_RESET_PARAMETERS,
                            MESSAGE_TYPE_SET_PARAMETERS}, i)
     /\ raised = "none"
     /\ OneResponse(response)
     /\ HeadOf(response).bmCommandStatus = COMMAND_STATUS_OK)
      => /\ Len(bulkIN) = 1
         /\ "serialised" \in DOMAIN bulkIN[1]
         /\ LET wire == bulkIN[1].serialised
            IN /\ wire.bMessageType = MESSAGE_TYPE_PARAMETERS
               /\ wire.bProtocolNum = 1
               /\ wire.bmFindexDindex = 17
               /\ wire.bmTCCKS = 17
               /\ wire.bGuardTime = 254
               /\ wire.bmWaitingIntegers = 85
               /\ wire.bClockStop = CLOCK_STATUS_STOPPED
               /\ wire.bIFSC = 254
               /\ wire.bNadValue = 0

(***************************************************************************)
(* The responses on the wire.                                              *)
(***************************************************************************)
\* C30: every response header the dispatcher's result is submitted with
\* serialises to exactly 10 bytes, and its dwLength is the number of bytes
\* that follow those 10 bytes on the wire: the length of the body buffer
\* submitted behind it, 0 when there is none.
C30_HeaderAndLength ==
  BulkArrived(event)
    => \A k \in DOMAIN bulkIN :
         "serialised" \in DOMAIN bulkIN[k]
           => /\ sizeof(bulkIN[k].serialised.cls) = 10
              /\ bulkIN[k].serialised.dwLength =
                   IF k < Len(bulkIN) /\ "bytes" \in DOMAIN bulkIN[k + 1]
                   THEN Len(bulkIN[k + 1].bytes)
                   ELSE 0

\* C31: every response returned for a request on a slot of the reader
\* copies the request's bSlot and bSeq, carries as bmICCStatus the status
\* the slot has once the request has had its effect, and has
\* bmCommandStatus OK with bError 0, or else bmCommandStatus Failed.
C31_ResponseHeader ==
  [][\A i \in DOMAIN slot_list :
       (/\ BulkRequest(event', RequestTypes, i)
        /\ raised' = "none"
        /\ IsTuple(response'))
         => \A k \in DOMAIN response'.tuple :
              IsTuple(response'.tuple[k])
                => LET head == response'.tuple[k].tuple[1]
                   IN /\ head.bSlot = i
                      /\ head.bSeq = Header(event').ret.bSeq
                      /\ head.bmICCStatus = slot_list'[i].status
                      /\ \/ /\ head.bmCommandStatus = COMMAND_STATUS_OK
                            /\ head.bError = 0
                         \/ head.bmCommandStatus = COMMAND_STATUS_FAILED]_vars

\* POWER_OFF of a powered card was answered OK with the status Inactive
\* that powerOff left
C31_PoweredOffReported ==
  \E i \in DOMAIN slot_list :
    /\ BulkRequest(event, {MESSAGE_TYPE_POWER_OFF}, i)
    /\ cardCalls = <<CardCall(slot_list[i].card, "clearVolatile", <<>>)>>
    /\ OneResponse(response)
    /\ HeadOf(response).bmCommandStatus = COMMAND_STATUS_OK
    /\ HeadOf(response).bmICCStatus = ICC_STATUS_INACTIVE
    /\ HeadOf(response).bSeq = MaxSeq

(***************************************************************************)
(* The assertions of the slot.                                             *)
(***************************************************************************)
\* C32: whenever the dispatcher calls powerOn on a slot, the slot's APDU
\* buffer is empty and the assertion in powerOn does not fail.
C32_PowerOnBufferEmpty ==
  [][\A k \in DOMAIN slotOps' :
       slotOps'[k].op = "powerOn"
         => /\ slot_list[slotOps'[k].slot].data = <<>>
            /\ raised' # "AssertionError"]_vars

\* C33: whenever abortFromBulk has to latch its response (no control ABORT
\* of that sequence number is latched) no bulk response is latched yet, and
\* whenever abortFromControl has to latch its sequence number (no bulk
\* response is latched) no control sequence number is latched yet, so that
\* neither assertion fails.
C33_AbortAssertions ==
  [][\A i \in DOMAIN slot_list, q \in Seqs :
       /\ (BulkAbort(event', i, q) /\ slot_list[i].abort_control_sequence # q)
            => /\ slot_list[i].abort_response = None
               /\ raised' # "AssertionError"
       /\ (ControlAbort(event', i, q) /\ slot_list[i].abort_response = None)
            => /\ slot_list[i].abort_control_sequence = NoSeq
               /\ raised' # "AssertionError"]_vars

(***************************************************************************)
(* The changed flag and the card's volatile state.                         *)
(***************************************************************************)
\* C34 as stated: every step that changes the status of a slot leaves the
\* slot's changed flag true, unless the notifier has read it in that same
\* step and reported changed = 1; and a flag that is true stays true until
\* the notifier reads it.
C34_StatusChangeFlagged ==
  [][\A i \in DOMAIN slot_list :
       LET read == /\ Len(intIN') = 1
                   /\ intIN'[1].serialised.changed[i] = 1
       IN /\ slot_list'[i].status # slot_list[i].status
               => (slot_list'[i].changed \/ read)
          /\ (slot_list[i].changed /\ ~slot_list'[i].changed) => read]_vars

\* C34, amended: a successful insert or remove leaves the slot's changed
\* flag true, unless the notifier has read it in that same step and
\* reported changed = 1; a flag that is true stays true until the notifier
\* reads it; powerOn and powerOff, whoever runs them, leave the flag as it
\* is.
C34_PresenceChangeFlagged ==
  [][\A i \in DOMAIN slot_list :
       LET read == /\ Len(intIN') = 1
                   /\ intIN'[1].serialised.changed[i] = 1
       IN /\ (/\ event'.handler \in {"insert", "remove"}
               /\ event'.slot = i
               /\ raised' = "none")
               => /\ slot_list'[i].status # slot_list[i].status
                  /\ IF enabled THEN read /\ ~slot_list'[i].changed
                                ELSE slot_list'[i].changed /\ intIN' = <<>>
          /\ (slot_list[i].changed /\ ~slot_list'[i].changed) => read
          /\ (\E k \in DOMAIN slotOps' :
                /\ slotOps'[k].slot = i
                /\ slotOps'[k].op \in {"powerOn", "powerOff"})
               => slot_list'[i].changed = slot_list[i].changed]_vars

\* POWER_OFF has powered off a card of an enabled function and the slot's
\* flag is clear
C34_PoweredOffUnflagged ==
  \E i \in DOMAIN slot_list :
    /\ BulkRequest(event, {MESSAGE_TYPE_POWER_OFF}, i)
    /\ cardCalls = <<CardCall(slot_list[i].card, "clearVolatile", <<>>)>>
    /\ slot_list[i].status = ICC_STATUS_INACTIVE
    /\ ~slot_list[i].changed
    /\ enabled

\* C35: a step calls card.clearVolatile exactly for a successful remove
\* and for a powerOff of an Active slot, once, on the card the slot held;
\* powerOff of an Inactive or NotPresent slot does not call it; powerOff
\* always leaves the APDU buffer empty.
C35_ClearVolatile ==
  [][\A i \in DOMAIN slot_list :
       LET cleared == Cardinality({k \in DOMAIN cardCalls' :
                        cardCalls'[k] = CardCall(slot_list[i].card, "clearVolatile", <<>>)})
           removed == /\ event'.handler = "remove"
                      /\ event'.slot = i
                      /\ raised' = "none"
           off == \E k \in DOMAIN slotOps' :
                    slotOps'[k].slot = i /\ slotOps'[k].op = "powerOff"
       IN /\ cleared = IF removed \/ (off /\ slot_list[i].status = ICC_STATUS_ACTIVE)
                       THEN 1
                       ELSE 0
          /\ off => slot_list'[i].data = <<>>]_vars

\* POWER_OFF reached a card that was not powered: nothing was called on
\* the card and the buffer is empty
C35_OffWhileInactive ==
  \E i \in DOMAIN slot_list :
    /\ BulkRequest(event, {MESSAGE_TYPE_POWER_OFF}, i)
    /\ slotOps = <<SlotOp(i, "powerOff", "none")>>
    /\ slot_list[i].card # NoCard
    /\ cardCalls = <<>>
    /\ slot_list[i].data = <<>>

\* C36: nothing is submitted on interrupt-IN by a step that ends with the
\* function not enabled; while it is not enabled a changed flag that is set
\* stays set and a successful insert or remove sets the flag of its slot;
\* the notification onEnable submits reports changed = 1 exactly for the
\* slots whose flag is set, and clears the flags.
C36_DeferredNotification ==
  [][/\ intIN' # <<>> => enabled'
     /\ \A i \in DOMAIN slot_list :
          /\ ~enabled'
               => /\ slot_list[i].changed => slot_list'[i].changed
                  /\ (/\ event'.handler \in {"insert", "remove"}
                      /\ event'.slot = i
                      /\ raised' = "none") => slot_list'[i].changed
          /\ event'.handler = "onEnable"
               => /\ Len(intIN') = 1
                  /\ "serialised" \in DOMAIN intIN'[1]
                  /\ intIN'[1].serialised.bMessageType = MESSAGE_TYPE_SLOT_CHANGE
                  /\ (intIN'[1].serialised.changed[i] = 1) = slot_list[i].changed
                  /\ ~slot_list'[i].changed]_vars

\* onEnable reported, in a reader of two slots, one slot as changed and
\* empty and the other as unchanged
C36_OneSlotReported ==
  /\ event.handler = "onEnable"
  /\ Len(intIN) = 1
  /\ intIN[1].serialised.changed[NumSlots] = 1
  /\ intIN[1].serialised.present[NumSlots] = 0
  /\ intIN[1].serialised.changed[0] = 0

\* C37: between two operations, if the function is enabled then the
\* changed flag of every slot is false.
C37_NoFlagWhileEnabled ==
  enabled => \A i \in DOMAIN slot_list : ~slot_list[i].changed

\* a card was inserted into a slot of an enabled function: the insertion
\* was notified and the flag is clear again
C37_InsertedWhileEnabled ==
  \E i \in DOMAIN slot_list :
    /\ event.handler = "insert"
    /\ event.slot = i
    /\ raised = "none"
    /\ enabled
    /\ intIN # <<>>
    /\ slot_list[i].card # NoCard
    /\ ~slot_list[i].changed

(***************************************************************************)
(* Failures, the card, and the other slots.                                *)
(***************************************************************************)
\* C38: a request that is answered with a response whose bmCommandStatus
\* is Failed leaves the slot it addresses as it was (status, card, APDU
\* buffer, changed flag, both abort latches) and calls no operation of the
\* slot or of the card.
C38_FailedHasNoEffect ==
  [][\A i \in DOMAIN slot_list :
       (/\ BulkRequest(event', RequestTypes, i)
        /\ raised' = "none"
        /\ IsTuple(response')
        /\ \E k \in DOMAIN response'.tuple :
             /\ IsTuple(response'.tuple[k])
             /\ response'.tuple[k].tuple[1].bmCommandStatus = COMMAND_STATUS_FAILED)
         => /\ slot_list'[i] = slot_list[i]
            /\ slotOps' = <<>>
            /\ cardCalls' = <<>>]_vars

\* an XFR_BLOCK was refused with ERROR_CMD_ABORTED on a slot that holds a
\* stored chunk and a latched abort
C38_RefusedWhileAborting ==
  \E i \in DOMAIN slot_list :
    /\ BulkRequest(event, {MESSAGE_TYPE_XFR_BLOCK}, i)
    /\ Failed(response, ERROR_CMD_ABORTED)
    /\ isAborting(slot_list[i])
    /\ slot_list[i].data # <<>>

\* C39: card.getATR and card.runAPDU are called only by a POWER_ON or
\* XFR_BLOCK for a slot that holds that card and has neither abort latch
\* populated; an accepted XFR_BLOCK with stop set on an Inactive slot that
\* is not aborting calls card.runAPDU and leaves the slot Inactive.
C39_CardCalls ==
  [][/\ \A k \in DOMAIN cardCalls' :
          cardCalls'[k].method \in {"getATR", "runAPDU"}
            => \E i \in DOMAIN slot_list :
                 /\ BulkRequest(event', {MESSAGE_TYPE_POWER_ON, MESSAGE_TYPE_XFR_BLOCK}, i)
                 /\ slot_list[i].card # NoCard
                 /\ slot_list[i].card = cardCalls'[k].card
                 /\ ~isAborting(slot_list[i])
     /\ \A i \in DOMAIN slot_list :
          (/\ BulkRequest(event', {MESSAGE_TYPE_XFR_BLOCK}, i)
           /\ Len(event'.data) - 10 = Header(event').ret.dwLength
           /\ Header(event').ret.wLevelParameter \in {CHAIN_BEGIN_AND_END, CHAIN_END}
           /\ slot_list[i].status = ICC_STATUS_INACTIVE
           /\ ~isAborting(slot_list[i]))
            => /\ raised' = "none"
               /\ Len(cardCalls') = 1
               /\ cardCalls'[1].card = slot_list[i].card
               /\ cardCalls'[1].method = "runAPDU"
               /\ slot_list'[i].status = ICC_STATUS_INACTIVE]_vars

\* a card that is not powered has run an APDU and answered with a body
C39_RunWhileInactive ==
  \E i \in DOMAIN slot_list :
    /\ BulkRequest(event, {MESSAGE_TYPE_XFR_BLOCK}, i)
    /\ Len(cardCalls) = 1
    /\ cardCalls[1].method = "runAPDU"
    /\ slot_list[i].status = ICC_STATUS_INACTIVE
    /\ OneResponse(response)
    /\ HeadOf(response).bmICCStatus = ICC_STATUS_INACTIVE
    /\ HeadOf(response).dwLength = 2

\* C40: a bulk request whose bSlot byte is i, a control ABORT whose wValue
\* names slot i, and insert and remove on slot i leave the status, the
\* card, the APDU buffer and both abort latches of every other slot as
\* they were.
C40_SlotIsolation ==
  [][\A i \in DOMAIN slot_list :
       (\/ /\ BulkArrived(event')
           /\ Len(event'.data) >= 7
           /\ event'.data[6] = i
        \/ \E q \in Seqs : ControlAbort(event', i, q)
        \/ /\ event'.handler \in {"insert", "remove"}
           /\ event'.slot = i)
         => \A j \in DOMAIN slot_list \ {i} :
              /\ slot_list'[j].status = slot_list[j].status
              /\ slot_list'[j].card = slot_list[j].card
              /\ slot_list'[j].data = slot_list[j].data
              /\ slot_list'[j].abort_control_sequence = slot_list[j].abort_control_sequence
              /\ slot_list'[j].abort_response = slot_list[j].abort_response]_vars

\* the first slot was powered on while the other slot holds a powered
\* card, a stored chunk and a latched control ABORT
C40_BesideBusySlot ==
  /\ BulkRequest(event, {MESSAGE_TYPE_POWER_ON}, 0)
  /\ cardCalls = <<CardCall(slot_list[0].card, "getATR", <<>>)>>
  /\ slot_list[0].status = ICC_STATUS_ACTIVE
  /\ slot_list[NumSlots].status = ICC_STATUS_ACTIVE
  /\ slot_list[NumSlots].data # <<>>
  /\ slot_list[NumSlots].abort_control_sequence # NoSeq
====
